---- MODULE Spec2Model ----
(***************************************************************************)
(* State persistence and mention-processing pipeline of the Fantasy Top    *)
(* Twitter bot: the DynamoDB and file backends, the state facade over      *)
(* them (stateManager.mjs), the single-file state manager it replaced, and *)
(* processMentions (mentionProcessor.mjs).                                 *)
(***************************************************************************)
EXTENDS Integers, Sequences, FiniteSets, TLC

\* ------------------------------------------------------------------ bounds
MaxId == 10          \* the mention ids of the model are MaxId-1 and MaxId
MaxBatch == 2        \* longest list getMentions returns
MaxRuns == 2         \* processMentions invocations per behaviour
MaxMentions == 3     \* mentions fetched per behaviour, all invocations together
MaxCandidates == 2   \* longest candidate list extractPotentialHeroes returns
MaxCalls == 3        \* direct facade calls per behaviour
MaxSteps == 6        \* startExecution/endExecution calls per behaviour of SpecRuns
MaxErrors == 22      \* recordError calls per behaviour of SpecErrors
MaxLeaps == 2        \* long waits per behaviour of SpecRetention
LeapMs == 345600000  \* milliseconds per long wait (four days)
MaxSaves == 112      \* saveLastMentionId calls per behaviour of SpecBackups
MaxStarts == 1       \* process restarts per behaviour of SpecBackups
MaxOverlapBatch == 1 \* longest list getMentions returns in SpecOverlap
MaxBodyLength == 300 \* longest market text (heading and rarity lines) of a reply
MaxUsernameLength == 15 \* longest username of a mention's author
MaxComposed == 1 \* replies composed in a behaviour of SpecLength
MaxSyncCalls == 2 \* imports, exports and synchronisations in a behaviour of SpecSync
MaxFailures == 1 \* failed DynamoDB calls within one import, export or synchronisation
MaxDiskOps == 4      \* saves begun, files damaged and loads in a behaviour of the disk scenarios
MaxNow == 1          \* clock ticks per behaviour
TickMs == 450000     \* milliseconds per clock tick

\* ------------------------------------------------------------------ values
\* A string is the sequence of its character codes; a mention id is the
\* decimal digits of the tweet number ("10" is <<1, 0>>, "" is << >>).
NullId == << -1 >>   \* JavaScript null where a string is expected
NoTime == -1         \* JavaScript null/undefined where a timestamp is expected

Digits(n) == IF n < 10 THEN << n >> ELSE << n \div 10, n % 10 >>

Ids == { Digits(n) : n \in (MaxId - 1) .. MaxId }

\* !mentionId of JavaScript: null, undefined and "" are falsy.
Falsy(id) == id = NullId \/ id = << >>

\* a.id > b.id on two JavaScript strings: code-unit (lexicographic) order.
RECURSIVE StrGreater(_, _)
StrGreater(a, b) ==
  IF a = << >> THEN FALSE
  ELSE IF b = << >> THEN TRUE
  ELSE IF Head(a) # Head(b) THEN Head(a) > Head(b)
  ELSE StrGreater(Tail(a), Tail(b))

\* The platform's ordering of ids: by the number the digits denote.
RECURSIVE IdValue(_)
IdValue(id) ==
  IF id = << >> THEN 0
  ELSE 10 * IdValue(SubSeq(id, 1, Len(id) - 1)) + id[Len(id)]

\* String.prototype.toLowerCase on the ASCII letters (_Identity: the name as given).
ToLowerCase_Identity(s) == s
ToLowerCase(s) == [ i \in 1 .. Len(s) |-> IF s[i] \in 65 .. 90 THEN s[i] + 32 ELSE s[i] ]

Zed == << 90, 101, 100 >>
zed == << 122, 101, 100 >>
NoHero == << >>                      \* metadata.heroName absent
HeroNames == { Zed, zed }

\* The map m with key k set to v (object property assignment).
MapPut(m, k, v) == [ x \in (DOMAIN m) \cup {k} |-> IF x = k THEN v ELSE m[x] ]
EmptyMap == [ x \in {} |-> 0 ]
\* (m[k] || 0)
MapGet0(m, k) == IF k \in DOMAIN m THEN m[k] ELSE 0

\* ------------------------------------------------------------------ rationals
RECURSIVE Gcd(_, _)
Gcd(a, b) == IF b = 0 THEN a ELSE Gcd(b, a % b)
Abs(x) == IF x < 0 THEN -x ELSE x
Rat(n, d) ==
  LET g == Gcd(Abs(n), Abs(d)) IN
  IF n = 0 THEN [n |-> 0, d |-> 1] ELSE [n |-> n \div g, d |-> d \div g]
RatInt(k) == [n |-> k, d |-> 1]
RatMul(a, b) == Rat(a.n * b.n, a.d * b.d)
RatAdd(a, b) == Rat(a.n * b.d + b.n * a.d, a.d * b.d)
RatDiv(a, b) == Rat(a.n * b.d, a.d * b.n)
RatLeq(a, b) == a.n * b.d <= b.n * a.d
RatMin(a, b) == IF RatLeq(a, b) THEN a ELSE b

\* ------------------------------------------------------------------ state
VARIABLES
  cfg,      \* USE_DYNAMO, FALLBACK_TO_FILE and how each backend behaves
  now,      \* the wall clock, in milliseconds
  dyn,      \* the DynamoDB table: one item per stateId
  file,     \* the file backend's state.json
  legacy,   \* the single-file state manager's state.json, its backups, its updateCounter
  run,      \* per processMentions invocation: where it is and what it has done
  work,     \* invocations started, mentions fetched and replies recorded so far
  ret,      \* the last state-manager call made directly: what was called, what it returned
  raised    \* operations that let an exception escape to their caller

MAX_TWEET_AGE_MS == 900000
InitialNow == MAX_TWEET_AGE_MS + TickMs

\* ------------------------------------------------------------------ documents
NoStats == [mentionsFound |-> -1, mentionsProcessed |-> -1, repliesSent |-> -1,
            errors |-> -1, retries |-> -1]
NoRat == [n |-> 0, d |-> 0]          \* an undefined numeric field

NoError == [timestamp |-> NoTime, context |-> "", id |-> NullId, message |-> ""]

\* getDefaultState(): the sections the facade reads and writes.
DefaultMetrics ==
  [totalRuns |-> 0, lastRunStart |-> NoTime, lastRunTime |-> NoTime,
   lastRunDuration |-> 0, avgRunDuration |-> RatInt(0), successRate |-> RatInt(100),
   currentExecutionId |-> NoTime, lastRunStats |-> NoStats]
DefaultErrors == [count |-> 0, last |-> NoError, history |-> << >>]
DefaultTwitter == [lastMentionId |-> NullId, processedCount |-> 0, lastProcessedAt |-> NoTime]
\* The item 'lastMentionId' of the table: { id, processedCount, lastProcessedAt }.
NoMentionItem == [id |-> NullId, processedCount |-> 0, lastProcessedAt |-> NoTime]
DefaultReplies == [count |-> 0, byHero |-> EmptyMap, history |-> EmptyMap]
getDefaultState ==
  [twitter |-> DefaultTwitter, replies |-> DefaultReplies,
   executionMetrics |-> DefaultMetrics, errors |-> DefaultErrors]

\* The metrics object startExecution begins with when DynamoDB holds none.
StartMetrics ==
  [DefaultMetrics EXCEPT !.avgRunDuration = NoRat, !.successRate = NoRat]

\* ------------------------------------------------------------------ call fates
\* What happens to one backend call: "ok", "fail" (service unreachable, disabled,
\* I/O error) or "bad" (unparsable data on a read, a serialization error or a
\* partial write on a write).
ModeFates(mode) ==
  CASE mode = "up" -> {"ok"}
    [] mode = "down" -> {"fail"}
    [] mode = "bad" -> {"bad"}
    [] OTHER -> {"ok", "fail"}
\* The fates of the nd DynamoDB calls and nf file calls one operation may make.
Fates(nd, nf) ==
  [d : [1 .. nd -> ModeFates(cfg.dynMode)], f : [1 .. nf -> ModeFates(cfg.fileMode)]]

\* ------------------------------------------------------------------ DynamoDB backend
AbsentItem(data) == [present |-> FALSE, data |-> data]
EmptyTable ==
  [lastMentionId |-> AbsentItem(NoMentionItem),
   executionMetrics |-> AbsentItem(DefaultMetrics),
   errors |-> AbsentItem(DefaultErrors),
   heroStats |-> AbsentItem(EmptyMap),
   replyCount |-> AbsentItem(0),
   tweets |-> EmptyMap]

\* saveState(key, data): PutCommand of the JSON string; false on any failure
\* (_NoCatch: the failure is thrown on).
DynSaveState_NoCatch(d, key, data, fate) ==
  IF fate = "ok"
  THEN [store |-> [d EXCEPT ![key] = [present |-> TRUE, data |-> data]], ret |-> TRUE, threw |-> FALSE]
  ELSE [store |-> d, ret |-> FALSE, threw |-> TRUE]

DynSaveState(d, key, data, fate) ==
  IF fate = "ok"
  THEN [store |-> [d EXCEPT ![key] = [present |-> TRUE, data |-> data]], ret |-> TRUE, threw |-> FALSE]
  ELSE [store |-> d, ret |-> FALSE, threw |-> FALSE]

\* loadState(key): the parsed item, or null when absent, unreachable or unparsable.
DynLoadState(d, key, fate) ==
  [found |-> fate = "ok" /\ d[key].present, data |-> d[key].data, threw |-> FALSE]

\* saveState(tweetId, metadata, 'tweet'): the item tweet_<id>.
DynSaveTweet(d, id, meta, fate) ==
  IF fate = "ok"
  THEN [store |-> [d EXCEPT !.tweets = MapPut(d.tweets, id, meta)], ret |-> TRUE, threw |-> FALSE]
  ELSE [store |-> d, ret |-> FALSE, threw |-> FALSE]

\* dynamoDB.hasRepliedToTweet(tweetId): !!loadState(tweetId, 'tweet').
DynHasRepliedToTweet(d, id, fate) ==
  [ret |-> fate = "ok" /\ id \in DOMAIN d.tweets, threw |-> FALSE]

\* dynamoDB.markTweetAsReplied(tweetId, metadata)
DynMarkTweetAsReplied(d, id, meta, t, fate) ==
  LET m == IF meta.repliedAt = NoTime THEN [meta EXCEPT !.repliedAt = t] ELSE meta
  IN DynSaveTweet(d, id, m, fate)

\* dynamoDB.loadLastMentionId(): state?.id || null
DynLoadLastMentionId(d, fate) ==
  LET r == DynLoadState(d, "lastMentionId", fate)
  IN [id |-> IF r.found /\ ~Falsy(r.data.id) THEN r.data.id ELSE NullId,
      threw |-> r.threw]

\* dynamoDB.saveLastMentionId(mentionId)
DynSaveLastMentionId(d, id, t, fateLoad, fateSave) ==
  IF Falsy(id) THEN [store |-> d, ret |-> FALSE, threw |-> FALSE]
  ELSE
    LET r == DynLoadState(d, "lastMentionId", fateLoad)
        count == IF r.found THEN r.data.processedCount ELSE 0
        updated == [id |-> id, processedCount |-> count + 1, lastProcessedAt |-> t]
    IN IF r.threw THEN [store |-> d, ret |-> FALSE, threw |-> TRUE]
       ELSE DynSaveState(d, "lastMentionId", updated, fateSave)

\* ------------------------------------------------------------------ file backend
NoFile == [present |-> FALSE, parsable |-> FALSE, doc |-> getDefaultState]

\* fileSystem.saveState('state', data): fs.writeFile of the whole document.
FileSaveState(f, doc, fate) ==
  CASE fate = "ok" ->
         [store |-> [present |-> TRUE, parsable |-> TRUE, doc |-> doc], ret |-> TRUE, threw |-> FALSE]
    [] fate = "bad" ->
         [store |-> [present |-> TRUE, parsable |-> FALSE, doc |-> getDefaultState],
          ret |-> FALSE, threw |-> FALSE]
    [] OTHER -> [store |-> f, ret |-> FALSE, threw |-> FALSE]

\* fileSystem.loadState('state'): null when missing, unreadable or unparsable.
FileLoadState(f, fate) ==
  [found |-> fate = "ok" /\ f.present /\ f.parsable, data |-> f.doc, threw |-> FALSE]

\* fileSystem.loadState('state') || getDefaultState()
FileLoadOrDefault(f, fate) ==
  LET r == FileLoadState(f, fate) IN IF r.found THEN r.data ELSE getDefaultState

\* The backups the file backend has made: saveState writes the state file and
\* nothing else (CONFIG.backupsEnabled is false, and is read only by
\* ensureStateDir and deleteState).
backupsEnabled == FALSE
FileBackups(f) == << >>

\* ------------------------------------------------------------------ state facade
\* The two switches of the facade (_Off: the fallback never taken).
USE_DYNAMO == cfg.useDynamo
FALLBACK_TO_FILE_Off == FALSE
FALLBACK_TO_FILE == cfg.fallback

\* What a facade operation leaves behind: both stores, its return value, whether
\* it let an exception escape, and whether a backend operation did.
Res(d, f, val, inner) == [dyn |-> d, file |-> f, ret |-> val, threw |-> FALSE, inner |-> inner]

NotCalled(d) == [store |-> d, ret |-> FALSE, threw |-> FALSE]

\* The exceptions an operation let out: its own, a backend operation's.
Escaped(r, facadeName) ==
  (IF r.threw THEN {facadeName} ELSE {}) \cup (IF r.inner THEN {"backend"} ELSE {})

\* loadLastMentionId()
LoadLastMentionId(d, f, ft) ==
  LET dr == DynLoadLastMentionId(d, ft.d[1])
      fr == FileLoadState(f, ft.f[1])
  IN IF USE_DYNAMO /\ dr.threw THEN Res(d, f, NullId, TRUE)
     ELSE IF USE_DYNAMO /\ dr.id # NullId THEN Res(d, f, dr.id, FALSE)
     ELSE IF ~USE_DYNAMO \/ FALLBACK_TO_FILE
          THEN IF fr.found /\ ~Falsy(fr.data.twitter.lastMentionId)
               THEN Res(d, f, fr.data.twitter.lastMentionId, fr.threw)
               ELSE Res(d, f, NullId, fr.threw)
          ELSE Res(d, f, NullId, FALSE)

\* saveLastMentionId(mentionId)
SaveLastMentionId(d, f, id, t, ft) ==
  IF Falsy(id) THEN Res(d, f, FALSE, FALSE)
  ELSE
    LET dr == IF USE_DYNAMO THEN DynSaveLastMentionId(d, id, t, ft.d[1], ft.d[2])
              ELSE NotCalled(d)
        doc == FileLoadOrDefault(f, ft.f[1])
        newDoc == [doc EXCEPT !.twitter = [lastMentionId |-> id,
                                           processedCount |-> doc.twitter.processedCount + 1,
                                           lastProcessedAt |-> t]]
        fr == FileSaveState(f, newDoc, ft.f[2])
    IN IF dr.threw THEN Res(dr.store, f, FALSE, TRUE)
       ELSE IF USE_DYNAMO /\ dr.ret THEN Res(dr.store, f, TRUE, FALSE)
       ELSE IF ~USE_DYNAMO \/ FALLBACK_TO_FILE
            THEN Res(dr.store, fr.store, IF fr.threw THEN FALSE ELSE fr.ret, fr.threw)
            ELSE Res(dr.store, f, FALSE, FALSE)

\* hasRepliedToTweet(tweetId) (_Never: false without a look at the backends)
HasRepliedToTweet_Never(d, f, id, ft) == Res(d, f, FALSE, FALSE)

HasRepliedToTweet(d, f, id, ft) ==
  LET dr == DynHasRepliedToTweet(d, id, ft.d[1])
      fr == FileLoadState(f, ft.f[1])
  IN IF USE_DYNAMO /\ dr.threw THEN Res(d, f, FALSE, TRUE)
     ELSE IF USE_DYNAMO /\ dr.ret THEN Res(d, f, TRUE, FALSE)
     ELSE IF USE_DYNAMO /\ ~FALLBACK_TO_FILE THEN Res(d, f, FALSE, FALSE)
     ELSE Res(d, f, ~fr.threw /\ fr.found /\ id \in DOMAIN fr.data.replies.history, fr.threw)

NoMeta == [repliedAt |-> NoTime, heroName |-> NoHero]

\* The DynamoDB branch of markTweetAsReplied: the tweet item, then heroStats and
\* replyCount when the item was stored and the metadata names a hero.
MarkInDynamo(d, id, meta, t, ft) ==
  LET m1 == DynMarkTweetAsReplied(d, id, meta, t, ft.d[1])
      heroName == ToLowerCase(meta.heroName)
      hl == DynLoadState(m1.store, "heroStats", ft.d[2])
      heroStats == IF hl.found THEN hl.data ELSE EmptyMap
      hs == DynSaveState(m1.store, "heroStats",
                         MapPut(heroStats, heroName, MapGet0(heroStats, heroName) + 1), ft.d[3])
      cl == DynLoadState(hs.store, "replyCount", ft.d[4])
      count == IF cl.found THEN cl.data ELSE 0
      cs == DynSaveState(hs.store, "replyCount", count + 1, ft.d[5])
  IN IF m1.threw THEN m1
     ELSE IF m1.ret /\ meta.heroName # NoHero
          THEN IF hl.threw THEN [store |-> m1.store, ret |-> m1.ret, threw |-> TRUE]
               ELSE IF hs.threw \/ cl.threw THEN [store |-> hs.store, ret |-> m1.ret, threw |-> TRUE]
               ELSE [store |-> cs.store, ret |-> m1.ret, threw |-> cs.threw]
          ELSE m1

\* markTweetAsReplied(tweetId, metadata)
MarkTweetAsReplied(d, f, id, meta, t, ft) ==
  LET stamped == IF meta.repliedAt = NoTime THEN [meta EXCEPT !.repliedAt = t] ELSE meta
      dr == IF USE_DYNAMO THEN MarkInDynamo(d, id, stamped, t, ft) ELSE NotCalled(d)
      doc == FileLoadOrDefault(f, ft.f[1])
      heroName == ToLowerCase(stamped.heroName)
      newDoc == [doc EXCEPT
                   !.replies.history = MapPut(@, id, stamped),
                   !.replies.count = @ + 1,
                   !.replies.byHero = IF stamped.heroName # NoHero
                                      THEN MapPut(@, heroName, MapGet0(@, heroName) + 1)
                                      ELSE @]
      fr == FileSaveState(f, newDoc, ft.f[2])
  IN IF dr.threw THEN Res(dr.store, f, FALSE, TRUE)
     ELSE IF USE_DYNAMO /\ dr.ret THEN Res(dr.store, f, TRUE, FALSE)
     ELSE IF ~USE_DYNAMO \/ FALLBACK_TO_FILE
          THEN Res(dr.store, fr.store, IF fr.threw THEN FALSE ELSE fr.ret, fr.threw)
          ELSE Res(dr.store, f, FALSE, FALSE)

\* ------------------------------------------------------------------ execution metrics
\* (x || 100) and (x || 0) on a number that may be undefined.
OrElse(x, dflt) == IF x = NoRat \/ x.n = 0 THEN dflt ELSE x

\* The metrics startExecution writes: one more run, started now (_NoCount: the
\* run is not counted).
StartedMetrics_NoCount(m, t) ==
  [m EXCEPT !.lastRunStart = t, !.currentExecutionId = t]
StartedMetrics(m, t) ==
  [m EXCEPT !.totalRuns = @ + 1, !.lastRunStart = t, !.currentExecutionId = t]

\* The metrics endExecution writes from the stored ones (_PerPrevRun: the rate
\* taken over the earlier runs and not capped; _HalfAvg: the average of the old
\* average and the new duration).
EndedMetrics_PerPrevRun(m, success, stats, t) ==
  LET totalRuns == IF m.totalRuns = 0 THEN 1 ELSE m.totalRuns
      prevRuns == IF totalRuns > 1 THEN totalRuns - 1 ELSE 0
      prevSuccesses == RatDiv(RatMul(OrElse(m.successRate, RatInt(100)), RatInt(prevRuns)),
                              RatInt(100))
      newSuccessCount == RatAdd(prevSuccesses, RatInt(IF success THEN 1 ELSE 0))
  IN [m EXCEPT !.lastRunTime = t, !.lastRunStats = stats,
               !.successRate = RatMul(RatDiv(newSuccessCount,
                                             RatInt(IF prevRuns > 0 THEN prevRuns ELSE 1)),
                                      RatInt(100))]
EndedMetrics_HalfAvg(m, success, stats, t) ==
  LET startTime == IF m.lastRunStart # NoTime THEN m.lastRunStart ELSE t
      duration == t - startTime
  IN [m EXCEPT !.lastRunTime = t, !.lastRunDuration = duration, !.lastRunStats = stats,
               !.avgRunDuration = RatDiv(RatAdd(OrElse(m.avgRunDuration, RatInt(0)),
                                                RatInt(duration)), RatInt(2))]
EndedMetrics(m, success, stats, t) ==
  LET startTime == IF m.lastRunStart # NoTime THEN m.lastRunStart ELSE t
      duration == t - startTime
      totalRuns == IF m.totalRuns = 0 THEN 1 ELSE m.totalRuns
      prevAvg == OrElse(m.avgRunDuration, RatInt(0))
      prevRuns == IF totalRuns > 1 THEN totalRuns - 1 ELSE 0
      avg == IF prevRuns > 0
             THEN RatDiv(RatAdd(RatMul(prevAvg, RatInt(prevRuns)), RatInt(duration)), RatInt(totalRuns))
             ELSE RatInt(duration)
      prevSuccesses == RatMin(RatDiv(RatMul(OrElse(m.successRate, RatInt(100)), RatInt(prevRuns)),
                                     RatInt(100)),
                              RatInt(prevRuns))
      newSuccessCount == RatAdd(prevSuccesses, RatInt(IF success THEN 1 ELSE 0))
      rate == RatMin(RatMul(RatDiv(newSuccessCount, RatInt(totalRuns)), RatInt(100)), RatInt(100))
  IN [m EXCEPT !.lastRunTime = t, !.lastRunDuration = duration, !.lastRunStats = stats,
               !.avgRunDuration = avg, !.successRate = rate]

\* startExecution(): returns the execution id whatever was stored.
StartExecution(d, f, t, ft) ==
  LET l == DynLoadState(d, "executionMetrics", ft.d[1])
      metrics == IF l.found THEN l.data ELSE StartMetrics
      ds == IF USE_DYNAMO
            THEN DynSaveState(d, "executionMetrics", StartedMetrics(metrics, t), ft.d[2])
            ELSE NotCalled(d)
      doc == FileLoadOrDefault(f, ft.f[1])
      fr == FileSaveState(f, [doc EXCEPT !.executionMetrics = StartedMetrics(@, t)], ft.f[2])
  IN IF USE_DYNAMO /\ (l.threw \/ ds.threw) THEN Res(ds.store, f, NoTime, TRUE)
     ELSE IF USE_DYNAMO /\ ds.ret THEN Res(ds.store, f, t, FALSE)
     ELSE IF ~USE_DYNAMO \/ FALLBACK_TO_FILE THEN Res(ds.store, fr.store, t, fr.threw)
     ELSE Res(ds.store, f, t, FALSE)

\* endExecution(success, stats)
EndExecution(d, f, success, stats, t, ft) ==
  LET l == DynLoadState(d, "executionMetrics", ft.d[1])
      ds == IF USE_DYNAMO /\ l.found
            THEN DynSaveState(d, "executionMetrics", EndedMetrics(l.data, success, stats, t), ft.d[2])
            ELSE NotCalled(d)
      doc == FileLoadOrDefault(f, ft.f[1])
      fr == FileSaveState(f, [doc EXCEPT !.executionMetrics = EndedMetrics(@, success, stats, t)],
                          ft.f[2])
  IN IF USE_DYNAMO /\ (l.threw \/ ds.threw) THEN Res(ds.store, f, FALSE, TRUE)
     ELSE IF USE_DYNAMO /\ ds.ret THEN Res(ds.store, f, TRUE, FALSE)
     ELSE IF ~USE_DYNAMO \/ FALLBACK_TO_FILE THEN Res(ds.store, fr.store, fr.ret, fr.threw)
     ELSE Res(ds.store, f, FALSE, FALSE)

\* ------------------------------------------------------------------ error log
MaxErrorHistory == 20

\* The texts the model's errors and contexts carry, and which of them contain
\* which of the substrings shouldIgnoreError looks for.
CtxPostReply == "Failed to post reply to tweet"
CtxNoTokens == "Failed to post reply to"
CtxMention == "Processing mention ID"
CtxBatch == "processMentions"
CtxUsername == "Failed to get username for author_id"
MsgNoTokens == "No valid tokens found for Twitter API"
MsgNotPermitted == "You are not permitted to perform this action"
MsgTooMany == "Response code 429 (Too Many Requests)"
MsgRateLimit == "Rate limit exceeded"
MsgTypeError == "Cannot read properties of undefined"
MsgNoUserId == "TWITTER_USER_ID not defined in environment variables"
Includes(text, pattern) ==
  \/ text = pattern
  \/ <<text, pattern>> \in
       { <<MsgTooMany, "Too Many Requests">>, <<MsgTooMany, "429">>,
         <<MsgRateLimit, "Rate limit">>,
         <<MsgNotPermitted, "not permitted to perform this action">> }

IGNORED_ERROR_CONTEXTS == { CtxUsername, MsgTooMany }

\* shouldIgnoreError(error, context) (_ContextOnly: without the look at the message)
shouldIgnoreError_ContextOnly(message, context) ==
  \E pattern \in IGNORED_ERROR_CONTEXTS : Includes(context, pattern)

shouldIgnoreError(message, context) ==
  \/ \E pattern \in IGNORED_ERROR_CONTEXTS : Includes(context, pattern)
  \/ Includes(message, "Rate limit")
  \/ Includes(message, "Too Many Requests")
  \/ Includes(message, "429")

\* errors with one more entry: counted, made the last, put first, cut to twenty.
WithError(e, entry) ==
  LET h == << entry >> \o e.history
  IN [count |-> e.count + 1, last |-> entry,
      history |-> IF Len(h) > MaxErrorHistory THEN SubSeq(h, 1, MaxErrorHistory) ELSE h]

\* recordError(error, context)
RecordError(d, f, message, context, id, t, ft) ==
  LET entry == [timestamp |-> t, context |-> context, id |-> id, message |-> message]
      l == DynLoadState(d, "errors", ft.d[1])
      errors == IF l.found THEN l.data ELSE DefaultErrors
      ds == IF USE_DYNAMO THEN DynSaveState(d, "errors", WithError(errors, entry), ft.d[2])
            ELSE NotCalled(d)
      doc == FileLoadOrDefault(f, ft.f[1])
      fr == FileSaveState(f, [doc EXCEPT !.errors = WithError(@, entry)], ft.f[2])
  IN IF shouldIgnoreError(message, context) THEN Res(d, f, FALSE, FALSE)
     ELSE IF USE_DYNAMO /\ (l.threw \/ ds.threw) THEN Res(ds.store, f, FALSE, TRUE)
     ELSE IF USE_DYNAMO /\ ds.ret THEN Res(ds.store, f, TRUE, FALSE)
     ELSE IF ~USE_DYNAMO \/ FALLBACK_TO_FILE THEN Res(ds.store, fr.store, fr.ret, fr.threw)
     ELSE Res(ds.store, f, FALSE, FALSE)

\* ------------------------------------------------------------------ reset
\* The items resetState writes to the table; the tweet_ items are not among them.
ResetItems ==
  << <<"lastMentionId", NoMentionItem>>, <<"executionMetrics", DefaultMetrics>>,
     <<"errors", DefaultErrors>>, <<"heroStats", EmptyMap>>, <<"replyCount", 0>> >>

\* The table after the first k saveState calls of resetState, each with its fate.
RECURSIVE ResetTable(_, _, _)
ResetTable(d, k, fates) ==
  IF k = 0 THEN d
  ELSE DynSaveState(ResetTable(d, k - 1, fates), ResetItems[k][1], ResetItems[k][2], fates[k]).store

\* resetState(): the results of the DynamoDB saves are not looked at.
ResetState(d, f, ft) ==
  LET table == IF USE_DYNAMO THEN ResetTable(d, Len(ResetItems), ft.d) ELSE d
      fr == FileSaveState(f, getDefaultState, ft.f[1])
  IN IF USE_DYNAMO /\ ~FALLBACK_TO_FILE THEN Res(table, f, TRUE, FALSE)
     ELSE Res(table, fr.store, fr.ret, fr.threw)

\* ------------------------------------------------------------------ statistics
\* The snapshot getStatistics starts from. executionMetrics {} is the absent item.
EmptyStats ==
  [twitter |-> DefaultTwitter,
   replies |-> [total |-> 0, byHero |-> EmptyMap, last |-> << >>],
   errors |-> [count |-> 0, last |-> NoError],
   executionMetrics |-> AbsentItem(DefaultMetrics)]

\* Object.entries(history) sorted by repliedAt, latest first: the keys are
\* integer-like, so the entries start in numeric order and the stable sort
\* keeps that order among equal times.
RECURSIVE RecentFirst(_)
RecentFirst(history) ==
  IF DOMAIN history = {} THEN << >>
  ELSE LET k == CHOOSE k \in DOMAIN history : \A x \in DOMAIN history :
                  \/ history[x].repliedAt < history[k].repliedAt
                  \/ history[x].repliedAt = history[k].repliedAt /\ IdValue(k) <= IdValue(x)
       IN << [tweetId |-> k, data |-> history[k]] >>
            \o RecentFirst([x \in DOMAIN history \ {k} |-> history[x]])

\* .slice(0, 5)
MaxRecent == 5
Slice(seq, n) == SubSeq(seq, 1, IF Len(seq) < n THEN Len(seq) ELSE n)

\* The DynamoDB stage of getStatistics. dynamoDB.queryItems is not a function of
\* the DynamoDB manager: the call throws, the throw is caught, and replies.last
\* stays [].
StatsFromDynamo(d, ft) ==
  LET mentionState == DynLoadState(d, "lastMentionId", ft.d[1])
      executionMetrics == DynLoadState(d, "executionMetrics", ft.d[2])
      errors == DynLoadState(d, "errors", ft.d[3])
      heroStats == DynLoadState(d, "heroStats", ft.d[4])
      replyCountData == DynLoadState(d, "replyCount", ft.d[5])
  IN [twitter |-> IF mentionState.found
                  THEN [lastMentionId |-> mentionState.data.id,
                        processedCount |-> mentionState.data.processedCount,
                        lastProcessedAt |-> mentionState.data.lastProcessedAt]
                  ELSE EmptyStats.twitter,
      replies |-> [total |-> IF replyCountData.found THEN replyCountData.data ELSE 0,
                   byHero |-> IF heroStats.found THEN heroStats.data ELSE EmptyMap,
                   last |-> << >>],
      errors |-> IF errors.found
                 THEN [count |-> errors.data.count, last |-> errors.data.last]
                 ELSE EmptyStats.errors,
      executionMetrics |-> IF executionMetrics.found
                           THEN [present |-> TRUE, data |-> executionMetrics.data]
                           ELSE EmptyStats.executionMetrics]

\* The file stage: only null, zero and empty values take the file's.
StatsWithFile(stats, fileState) ==
  [twitter |->
     [lastMentionId |-> IF stats.twitter.lastMentionId = NullId
                        THEN (IF Falsy(fileState.twitter.lastMentionId) THEN NullId
                              ELSE fileState.twitter.lastMentionId)
                        ELSE stats.twitter.lastMentionId,
      processedCount |-> IF stats.twitter.processedCount = 0
                         THEN fileState.twitter.processedCount
                         ELSE stats.twitter.processedCount,
      lastProcessedAt |-> IF stats.twitter.lastProcessedAt = NoTime
                          THEN fileState.twitter.lastProcessedAt
                          ELSE stats.twitter.lastProcessedAt],
   replies |->
     [total |-> IF stats.replies.total = 0 THEN fileState.replies.count
                ELSE stats.replies.total,
      byHero |-> IF DOMAIN stats.replies.byHero = {} THEN fileState.replies.byHero
                 ELSE stats.replies.byHero,
      last |-> IF stats.replies.last = << >>
               THEN Slice(RecentFirst(fileState.replies.history), MaxRecent)
               ELSE stats.replies.last],
   errors |-> IF stats.errors.count = 0
              THEN [count |-> fileState.errors.count, last |-> fileState.errors.last]
              ELSE stats.errors,
   executionMetrics |-> IF ~stats.executionMetrics.present
                        THEN [present |-> TRUE, data |-> fileState.executionMetrics]
                        ELSE stats.executionMetrics]

\* getStatistics()
GetStatistics(d, f, ft) ==
  LET fromDynamo == IF USE_DYNAMO THEN StatsFromDynamo(d, ft) ELSE EmptyStats
      fileState == FileLoadState(f, ft.f[1])
  IN IF USE_DYNAMO /\ fromDynamo.twitter.lastMentionId # NullId /\ ~FALLBACK_TO_FILE
     THEN Res(d, f, fromDynamo, FALSE)
     ELSE IF fileState.found THEN Res(d, f, StatsWithFile(fromDynamo, fileState.data), FALSE)
     ELSE Res(d, f, fromDynamo, FALSE)

\* ------------------------------------------------------------------ import and export
\* The keyed items importFullState saves before the replied tweets, and after.
ImportItems(doc) ==
  << <<"lastMentionId", [id |-> doc.twitter.lastMentionId,
                         processedCount |-> doc.twitter.processedCount,
                         lastProcessedAt |-> doc.twitter.lastProcessedAt]>>,
     <<"executionMetrics", doc.executionMetrics>>,
     <<"errors", doc.errors>> >>
ImportStats(doc) ==
  << <<"heroStats", doc.replies.byHero>>, <<"replyCount", doc.replies.count>> >>

\* The table after the first k saveState calls of a list of items, each with
\* its fate.
RECURSIVE SavedItems(_, _, _, _)
SavedItems(d, items, k, fates) ==
  IF k = 0 THEN d
  ELSE DynSaveState(SavedItems(d, items, k - 1, fates), items[k][1], items[k][2], fates[k]).store

\* The place of an id among the ids, by which its write finds its fate.
Rank(id) == Cardinality({ j \in Ids : IdValue(j) <= IdValue(id) })

\* dynamoDB.markTweetAsReplied(tweetId, metadata) for every entry of the history.
RECURSIVE ImportedTweets(_, _, _, _)
ImportedTweets(d, history, ids, fates) ==
  IF ids = {} THEN d
  ELSE LET id == CHOOSE i \in ids : TRUE
       IN ImportedTweets(DynMarkTweetAsReplied(d, id, history[id], NoTime, fates[Rank(id)]).store,
                         history, ids \ {id}, fates)

\* importFullState(stateData): false when the manager is disabled or the
\* document has no twitter or no replies section (a TypeError, caught); else
\* every save is awaited, its result is not looked at, and true is returned.
\* fates: three for the keyed items, one per id, two for the statistics.
ImportFullState(d, doc, fates) ==
  IF ~USE_DYNAMO \/ "twitter" \notin DOMAIN doc THEN [store |-> d, ret |-> FALSE]
  ELSE LET items == SavedItems(d, ImportItems(doc), 3, SubSeq(fates, 1, 3)) IN
       IF "replies" \notin DOMAIN doc THEN [store |-> items, ret |-> FALSE]
       ELSE LET tweets == ImportedTweets(items, doc.replies.history, DOMAIN doc.replies.history,
                                         SubSeq(fates, 4, 3 + Cardinality(Ids)))
            IN [store |-> SavedItems(tweets, ImportStats(doc), 2,
                                     SubSeq(fates, 4 + Cardinality(Ids), 5 + Cardinality(Ids))),
                ret |-> TRUE]

\* The Query of exportFullState: its key condition is
\* begins_with(stateId, "tweet_") on stateId, the table's only key (the key of
\* every GetCommand and PutCommand). DynamoDB answers a Query only when the
\* partition key is given by equality and rejects this one, as it does a call
\* that fails; the catch around the loop logs the error and the export goes on
\* without replied tweets ("answered": what it would collect from an answer).
QueryTweets(d, fate) == IF fate = "answered" THEN d.tweets ELSE EmptyMap
QueryFates == {"rejected"}

\* exportFullState(): null when the manager is disabled; else the document put
\* together from the five keyed items, each with its stand-in when the load
\* gives nothing, and the replied tweets of the Query.
ExportFullState(d, fates, queryFate) ==
  LET lastMentionState == DynLoadState(d, "lastMentionId", fates[1])
      executionMetrics == DynLoadState(d, "executionMetrics", fates[2])
      errors == DynLoadState(d, "errors", fates[3])
      heroStats == DynLoadState(d, "heroStats", fates[4])
      replyCountData == DynLoadState(d, "replyCount", fates[5])
  IN [found |-> USE_DYNAMO,
      doc |->
        [twitter |->
           [lastMentionId |-> IF lastMentionState.found /\ ~Falsy(lastMentionState.data.id)
                              THEN lastMentionState.data.id ELSE NullId,
            processedCount |-> IF lastMentionState.found
                               THEN lastMentionState.data.processedCount ELSE 0,
            lastProcessedAt |-> IF lastMentionState.found
                                THEN lastMentionState.data.lastProcessedAt ELSE NoTime],
         replies |->
           [count |-> IF replyCountData.found THEN replyCountData.data ELSE 0,
            byHero |-> IF heroStats.found THEN heroStats.data ELSE EmptyMap,
            history |-> QueryTweets(d, queryFate)],
         executionMetrics |-> IF executionMetrics.found THEN executionMetrics.data ELSE EmptyMap,
         errors |-> IF errors.found THEN errors.data ELSE [count |-> 0, history |-> << >>]]]

\* synchronizeState(direction): 'toDynamo' imports the state file, 'toFile'
\* saves the export as the state file.
SynchronizeState(d, f, direction, fates, queryFate, ft) ==
  IF direction = "toDynamo"
  THEN LET fileState == FileLoadState(f, ft.f[1])
       IN IF ~fileState.found THEN Res(d, f, FALSE, FALSE)
          ELSE LET r == ImportFullState(d, fileState.data, fates)
               IN Res(r.store, f, r.ret, FALSE)
  ELSE LET dynamoState == ExportFullState(d, fates, queryFate)
           fr == FileSaveState(f, dynamoState.doc, ft.f[1])
       IN IF ~dynamoState.found THEN Res(d, f, FALSE, FALSE)
          ELSE Res(d, fr.store, fr.ret, FALSE)

\* ------------------------------------------------------------------ single-file state manager
\* The state manager that keeps everything in one state.json, with backups.
backupFrequency == 10
KeptBackups == 10
\* starts counts the processes that have ended: updateCounter is a variable of the
\* process, state.json and the backups outlive it.
\* tmp is state.json.tmp, there only while a save is under way.
NoLegacy ==
  [main |-> NoFile, tmp |-> NoFile, backups |-> << >>, updateCounter |-> 0, starts |-> 0]

\* backupState(): copy state.json into backups/, keep the newest ten.
backupState(lg) ==
  IF ~lg.main.present THEN lg
  ELSE LET all == Append(lg.backups, lg.main)
       IN [lg EXCEPT !.backups = IF Len(all) > KeptBackups
                                  THEN SubSeq(all, Len(all) - KeptBackups + 1, Len(all))
                                  ELSE all]

\* saveState(state): write state.json.tmp, rename it over state.json, and take a
\* backup on every backupFrequency-th save.
LegacySaveState(lg, doc, fate) ==
  IF fate # "ok" THEN [store |-> lg, ret |-> FALSE]
  ELSE LET written == [lg EXCEPT !.main = [present |-> TRUE, parsable |-> TRUE, doc |-> doc],
                                 !.updateCounter = @ + 1]
       IN [store |-> IF written.updateCounter % backupFrequency = 0
                     THEN backupState(written) ELSE written,
           ret |-> TRUE]

\* The sections of a state document (the stamps of its metadata section are
\* left out of the documents here), and whether a document has them all.
Sections == DOMAIN getDefaultState
Complete(doc) == Sections \subseteq DOMAIN doc

\* loadState(): state.json; the defaults when it is missing; the newest backup
\* (restored as state.json) when it cannot be read or parsed or lacks a section;
\* else the defaults.
LegacyLoadState(lg, fateRead, fateBackup, fateRestore) ==
  IF ~lg.main.present THEN [store |-> lg, doc |-> getDefaultState]
  ELSE IF fateRead = "ok" /\ lg.main.parsable /\ Complete(lg.main.doc)
       THEN [store |-> lg, doc |-> lg.main.doc]
  ELSE IF Len(lg.backups) > 0 /\ fateBackup = "ok" /\ lg.backups[Len(lg.backups)].parsable
       THEN [store |-> LegacySaveState(lg, lg.backups[Len(lg.backups)].doc, fateRestore).store,
             doc |-> lg.backups[Len(lg.backups)].doc]
       ELSE [store |-> lg, doc |-> getDefaultState]

\* saveLastMentionId(lastMentionId) of the single-file state manager
LegacySaveLastMentionId(lg, id, t, ft) ==
  LET l == LegacyLoadState(lg, ft.f[1], ft.f[2], ft.f[3])
      newDoc == [l.doc EXCEPT !.twitter = [lastMentionId |-> id,
                                           processedCount |-> l.doc.twitter.processedCount + 1,
                                           lastProcessedAt |-> t]]
  IN LegacySaveState(l.store, newDoc, ft.f[4])

\* CONFIG.retentionDays, and the retention period in milliseconds.
retentionDays == 7
retentionPeriod == retentionDays * 24 * 60 * 60 * 1000

\* The clean-up loop of markTweetAsReplied: entries replied to before the
\* cut-off are deleted.
CleanedUp(history, t) ==
  LET kept == { id \in DOMAIN history : ~(history[id].repliedAt < t - retentionPeriod) }
  IN [ id \in kept |-> history[id] ]

\* markTweetAsReplied(tweetId, metadata) of the single-file state manager.
LegacyMarkTweetAsReplied(lg, id, meta, t, ft) ==
  LET l == LegacyLoadState(lg, ft.f[1], ft.f[2], ft.f[3])
      stamped == IF meta.repliedAt = NoTime THEN [meta EXCEPT !.repliedAt = t] ELSE meta
      heroName == ToLowerCase(meta.heroName)
      newDoc == [l.doc EXCEPT
                   !.replies.history = CleanedUp(MapPut(@, id, stamped), t),
                   !.replies.count = @ + 1,
                   !.replies.byHero = IF meta.heroName # NoHero
                                      THEN MapPut(@, heroName, MapGet0(@, heroName) + 1)
                                      ELSE @]
  IN LegacySaveState(l.store, newDoc, ft.f[4])

\* resetState() of the single-file state manager: a backup (a failure of it is
\* logged and passed over), then saveState(defaults), whose result is not looked
\* at; true is returned.
LegacyResetState(lg, ft) ==
  LET backedUp == IF ft.f[1] = "ok" THEN backupState(lg) ELSE lg
  IN [store |-> LegacySaveState(backedUp, getDefaultState, ft.f[2]).store, ret |-> TRUE]

\* ------------------------------------------------------------------ processMentions: local state
Procs == {1, 2}

ZeroStats == [mentionsFound |-> 0, mentionsProcessed |-> 0, repliesSent |-> 0,
              errors |-> 0, retries |-> 0]

\* The locals of one invocation, and a record of the external calls it made:
\* posts lists the position of the mention of every postTweet call; saved, marked
\* and the like hold positions in the sorted list.
\* fetchOptions = {}: no sinceId, no minutesAgo.
NoOptions == [sinceId |-> NullId, minutesAgo |-> 0]

IdleRun ==
  [pc |-> "idle", outcome |-> "none", cursor |-> NullId, windowed |-> FALSE,
   options |-> NoOptions,
   mentions |-> << >>, createdAt |-> << >>, idx |-> 0, stats |-> ZeroStats,
   candidates |-> 0, hero |-> NoHero, replyText |-> << >>, retryCount |-> 0,
   posts |-> << >>, postedOk |-> {}, marked |-> {}, saved |-> {}, savedOk |-> {},
   skipped |-> {}, tooOld |-> {}, unresolved |-> {}, ended |-> FALSE,
   cursorBefore |-> NullId, cursorAt |-> NullId]

\* mentions.sort((a, b) => (a.id > b.id ? 1 : -1)): a goes after b when a.id > b.id
\* as strings.
RECURSIVE InsertById(_, _)
InsertById(x, sorted) ==
  IF sorted = << >> THEN << x >>
  ELSE IF StrGreater(x, Head(sorted)) THEN << Head(sorted) >> \o InsertById(x, Tail(sorted))
  ELSE << x >> \o sorted
RECURSIVE SortMentions(_)
SortMentions(list) ==
  IF list = << >> THEN << >> ELSE InsertById(Head(list), SortMentions(Tail(list)))

\* isTweetRecent(tweetCreatedAt)
isTweetRecent(tweetCreatedAt, t) ==
  IF tweetCreatedAt = NoTime THEN FALSE ELSE t - tweetCreatedAt <= MAX_TWEET_AGE_MS

\* What loadLastMentionId returns when every read succeeds.
AllOk(nd, nf) == [d |-> [i \in 1 .. nd |-> "ok"], f |-> [i \in 1 .. nf |-> "ok"]]
StoredCursor == LoadLastMentionId(dyn, file, AllOk(1, 1)).ret

\* ------------------------------------------------------------------ processMentions: steps
MAX_RETRIES == 0

\* The for loop moves to the next mention, or past the last one (_Revisit: it
\* stays on the mention it is at).
NextMention_Revisit(rec) ==
  IF rec.mentions = << >>
  THEN [rec EXCEPT !.pc = "end", !.candidates = 0, !.hero = NoHero, !.replyText = << >>,
                   !.retryCount = 0]
  ELSE [rec EXCEPT !.pc = "dedup", !.idx = IF @ = 0 THEN 1 ELSE @, !.candidates = 0,
                   !.hero = NoHero, !.replyText = << >>, !.retryCount = 0]
NextMention(rec) ==
  IF rec.idx < Len(rec.mentions)
  THEN [rec EXCEPT !.pc = "dedup", !.idx = @ + 1, !.candidates = 0, !.hero = NoHero,
                   !.replyText = << >>, !.retryCount = 0]
  ELSE [rec EXCEPT !.pc = "end", !.candidates = 0, !.hero = NoHero, !.replyText = << >>,
                   !.retryCount = 0]

\* The lists getMentions may return: with a since_id only mentions the platform
\* ranks after it, in any order, the same mention possibly more than once.
Batches(lastMentionId) ==
  LET eligible == { id \in Ids : lastMentionId # NullId => IdValue(id) > IdValue(lastMentionId) }
      most == IF "batch" \in DOMAIN cfg THEN cfg.batch ELSE MaxBatch
      longest == IF MaxMentions - work.mentions < most
                 THEN MaxMentions - work.mentions ELSE most
  IN UNION { [1 .. n -> eligible] : n \in 0 .. longest }

\* The created_at values a mention may carry: absent, exactly the maximum age,
\* older. One mention listed twice carries one value; a fetch by time window
\* returns nothing older than the window.
CreatedChoices(rec) ==
  LET earlier == { j \in 1 .. (rec.idx - 1) : rec.mentions[j] = rec.mentions[rec.idx] }
  IN IF earlier # {} THEN { rec.createdAt[j] : j \in earlier }
     ELSE IF rec.windowed THEN { now - MAX_TWEET_AGE_MS }
     ELSE { NoTime, now - MAX_TWEET_AGE_MS, now - MAX_TWEET_AGE_MS - TickMs }

\* The fetchOptions processMentions builds from what loadLastMentionId returned
\* (_Both: the time window also next to a sinceId).
FetchOptions_Both(lastMentionId) ==
  [sinceId |-> IF ~Falsy(lastMentionId) THEN lastMentionId ELSE NullId,
   minutesAgo |-> MAX_TWEET_AGE_MS \div 60000]
FetchOptions(lastMentionId) ==
  IF ~Falsy(lastMentionId)
  THEN [NoOptions EXCEPT !.sinceId = lastMentionId]
  ELSE [NoOptions EXCEPT !.minutesAgo = MAX_TWEET_AGE_MS \div 60000]

\* The filters getMentions puts in the request: start_time for a minutesAgo,
\* since_id for a sinceId.
RequestFilters(options) ==
  (IF options.minutesAgo # 0 THEN {"start_time"} ELSE {}) \cup
  (IF ~Falsy(options.sinceId) THEN {"since_id"} ELSE {})

\* processMentions() up to the fetch: startExecution().
Start(p) ==
  /\ run[p].pc = "idle"
  /\ work.runs < MaxRuns
  /\ \E ft \in Fates(2, 2) :
       LET r == StartExecution(dyn, file, now, ft) IN
       /\ dyn' = r.dyn
       /\ file' = r.file
       /\ raised' = raised \cup Escaped(r, "startExecution")
  /\ run' = [run EXCEPT ![p] = [IdleRun EXCEPT !.pc = "fetch", !.cursorBefore = StoredCursor,
                                               !.cursorAt = StoredCursor]]
  /\ work' = [work EXCEPT !.runs = @ + 1]
  /\ UNCHANGED <<cfg, now, legacy, ret>>

\* loadLastMentionId(), getMentions(fetchOptions), the sort.
Fetch(p) ==
  /\ run[p].pc = "fetch"
  /\ \E ft \in Fates(1, 1) :
       LET r == LoadLastMentionId(dyn, file, ft) IN
       /\ raised' = raised \cup Escaped(r, "loadLastMentionId")
       /\ \E list \in Batches(FetchOptions(r.ret).sinceId) :
            /\ run' = [run EXCEPT ![p] =
                 NextMention([@ EXCEPT !.cursor = r.ret, !.options = FetchOptions(r.ret),
                                       !.windowed =
                                         ("start_time" \in RequestFilters(FetchOptions(r.ret))),
                                       !.mentions = SortMentions(list),
                                       !.createdAt = [i \in 1 .. Len(list) |-> NoTime],
                                       !.stats.mentionsFound = Len(list)])]
            /\ work' = [work EXCEPT !.mentions = @ + Len(list)]
  /\ UNCHANGED <<cfg, now, dyn, file, legacy, ret>>

\* getMentions throws (TWITTER_USER_ID is not defined): the outer catch records the
\* error, ends the execution as failed and rethrows.
FetchThrows(p) ==
  /\ run[p].pc = "fetch"
  /\ \E ft \in Fates(4, 4) :
       LET e == RecordError(dyn, file, MsgNoUserId, CtxBatch, NullId, now,
                            [d |-> SubSeq(ft.d, 1, 2), f |-> SubSeq(ft.f, 1, 2)])
           r == EndExecution(e.dyn, e.file, FALSE, [run[p].stats EXCEPT !.errors = @ + 1], now,
                             [d |-> SubSeq(ft.d, 3, 4), f |-> SubSeq(ft.f, 3, 4)])
       IN /\ dyn' = r.dyn
          /\ file' = r.file
          /\ raised' = raised \cup Escaped(e, "recordError") \cup Escaped(r, "endExecution")
  /\ run' = [run EXCEPT ![p] = [@ EXCEPT !.pc = "returned", !.outcome = "threw", !.ended = TRUE]]
  /\ UNCHANGED <<cfg, now, legacy, work, ret>>

\* if (!isTweetRecent(mention.created_at)): no reply; saveLastMentionId, continue
\* (_NoSave: continue at once).
TooOld_NoSave(rec) == NextMention([rec EXCEPT !.tooOld = @ \cup {rec.idx}])
TooOld(rec) == [rec EXCEPT !.pc = "advance", !.tooOld = @ \cup {rec.idx}]

\* The head of the loop body: hasRepliedToTweet, isTweetRecent, shouldRespondToMention.
Dedup(p) ==
  /\ run[p].pc = "dedup"
  /\ \E ft \in Fates(1, 1), created \in CreatedChoices(run[p]), respond \in BOOLEAN :
       LET r == HasRepliedToTweet(dyn, file, run[p].mentions[run[p].idx], ft)
           rec == [run[p] EXCEPT !.stats.mentionsProcessed = @ + 1, !.cursorAt = StoredCursor,
                                 !.createdAt[run[p].idx] = created]
       IN /\ raised' = raised \cup Escaped(r, "hasRepliedToTweet")
          /\ run' = [run EXCEPT ![p] =
               IF r.ret THEN NextMention([rec EXCEPT !.skipped = @ \cup {rec.idx}])
               ELSE IF ~isTweetRecent(created, now)
                    THEN TooOld(rec)
               ELSE IF ~respond THEN [rec EXCEPT !.pc = "advance"]
               ELSE [rec EXCEPT !.pc = "extract"]]
  /\ UNCHANGED <<cfg, now, dyn, file, legacy, work, ret>>

\* catch (mentionError): count it, record it, go on with the next mention.
Caught(p, message) ==
  \E ft \in Fates(2, 2) :
    LET r == RecordError(dyn, file, message, CtxMention, run[p].mentions[run[p].idx], now, ft) IN
    /\ dyn' = r.dyn
    /\ file' = r.file
    /\ raised' = raised \cup Escaped(r, "recordError")
    /\ run' = [run EXCEPT ![p] = NextMention([@ EXCEPT !.stats.errors = @ + 1])]

\* No hero for this mention (no candidate, or none that resolved): no reply, on
\* to saveLastMentionId.
Unresolved(rec) ==
  [rec EXCEPT !.pc = "advance", !.candidates = 0, !.unresolved = @ \cup {rec.idx}]

\* extractPotentialHeroes(text, entities): some candidates, none, or an exception.
Extract(p) ==
  /\ run[p].pc = "extract"
  /\ \/ /\ \E k \in 0 .. MaxCandidates :
             run' = [run EXCEPT ![p] = IF k = 0 THEN Unresolved(@)
                                       ELSE [@ EXCEPT !.pc = "resolve", !.candidates = k]]
        /\ UNCHANGED <<dyn, file, raised>>
     \/ Caught(p, MsgTypeError)
  /\ UNCHANGED <<cfg, now, legacy, work, ret>>

\* The catch of the candidate loop on a rate-limit message: return
\* (_Continue: go on to the cursor advance).
RateLimited_Continue(rec) == [rec EXCEPT !.pc = "advance", !.outcome = "aborted"]
RateLimited(rec) == [rec EXCEPT !.pc = "returned", !.outcome = "aborted"]

\* A candidate that resolved to nothing, or whose lookup failed without a
\* rate-limit message: the for loop goes on with the next candidate, if any
\* (_Break: the loop ends there).
NextCandidate_Break(rec) == Unresolved(rec)
NextCandidate(rec) ==
  IF rec.candidates > 1 THEN [rec EXCEPT !.candidates = @ - 1] ELSE Unresolved(rec)

\* One pass of the candidate loop: getHeroMarketInfo(candidate) finds the hero,
\* finds nothing, fails, or fails with a rate-limit message, which ends the
\* invocation on the spot (return).
Resolve(p) ==
  /\ run[p].pc = "resolve"
  /\ \E result \in {"found", "null", "error", "rate limit"}, h \in {Zed, NoHero} :
       /\ result # "found" => h = NoHero
       /\ run' = [run EXCEPT ![p] =
            IF result = "found" THEN [@ EXCEPT !.pc = "prepare", !.hero = h, !.candidates = @ - 1]
            ELSE IF result = "rate limit" THEN RateLimited(@)
            ELSE NextCandidate(@)]
  /\ UNCHANGED <<cfg, now, dyn, file, legacy, work, ret, raised>>

\* A reply text is a sequence of pieces; the author's handle is "@" followed by
\* the username. NoUsername is an absent (undefined) username.
Author == "author"
NoUsername == ""
Body == << "Here's the latest for ", "hero", ":" >>

\* createHeroInfoResponse(heroInfo, username).text: the message starts with
\* `@${username} ` when a username is given.
createHeroInfoResponse(username) ==
  (IF username # NoUsername THEN << "@", username, " " >> ELSE << >>) \o Body

\* formatReplyText(reply, mentionType, userInfo): a direct mention with a known
\* author gets `@${authorUsername} ` in front of reply.text.
formatReplyText(text, isDirect, authorUsername) ==
  IF isDirect /\ authorUsername # NoUsername
  THEN << "@", authorUsername, " " >> \o text ELSE text

\* let username = mention.username; if (!username && mention.author_id):
\* getUserById gives a record with the username, one without, or throws.
UsernameFor(carried, hasAuthorId, lookup) ==
  IF carried # NoUsername THEN carried
  ELSE IF hasAuthorId /\ lookup = "username" THEN Author
  ELSE NoUsername

\* if (heroFound): loadTokens(), the username lookup, the reply text.
Prepare(p) ==
  /\ run[p].pc = "prepare"
  /\ \/ \E ft \in Fates(2, 2) :
          LET r == RecordError(dyn, file, MsgNoTokens, CtxNoTokens, run[p].mentions[run[p].idx],
                               now, ft) IN
          /\ dyn' = r.dyn
          /\ file' = r.file
          /\ raised' = raised \cup Escaped(r, "recordError")
          /\ run' = [run EXCEPT ![p] = NextMention([@ EXCEPT !.stats.errors = @ + 1])]
     \/ /\ \E carried \in {Author, NoUsername}, hasAuthorId \in BOOLEAN,
                lookup \in {"username", "none", "throws"}, isDirect \in BOOLEAN :
             LET username == UsernameFor(carried, hasAuthorId, lookup)
                 usernameFails == carried = NoUsername /\ hasAuthorId /\ lookup = "throws"
             IN run' = [run EXCEPT ![p] =
                  [@ EXCEPT !.pc = "post", !.retryCount = 0,
                            !.replyText = formatReplyText(createHeroInfoResponse(username),
                                                          isDirect, username),
                            !.stats.errors = IF usernameFails THEN @ + 1 ELSE @]]
        /\ UNCHANGED <<dyn, file, raised>>
  /\ UNCHANGED <<cfg, now, legacy, work, ret>>

\* The else branch of the catch around postTweet: stats.errors++, (recordError,)
\* break, and on to saveLastMentionId (_Uncounted: without stats.errors++).
PostFailed_Uncounted(rec) == [rec EXCEPT !.pc = "advance"]
PostFailed(rec) == [rec EXCEPT !.pc = "advance", !.stats.errors = @ + 1]

\* One pass of the retry loop up to the outcome of postTweet: posted; or refused,
\* and then either one more pass or the error counted and recorded.
Post(p) ==
  /\ run[p].pc = "post"
  /\ LET rec == [run[p] EXCEPT !.stats.retries = IF run[p].retryCount > 0 THEN @ + 1 ELSE @,
                               !.posts = Append(@, run[p].idx)]
     IN \/ /\ run' = [run EXCEPT ![p] = [rec EXCEPT !.pc = "mark", !.stats.repliesSent = @ + 1,
                                                    !.postedOk = @ \cup {rec.idx}]]
           /\ UNCHANGED <<dyn, file, raised>>
        \/ \E message \in {MsgNotPermitted, MsgTooMany}, ft \in Fates(2, 2) :
             LET shouldRetry == Includes(message, "not permitted to perform this action")
                 r == RecordError(dyn, file, message, CtxPostReply, rec.mentions[rec.idx], now, ft)
             IN IF shouldRetry /\ rec.retryCount < MAX_RETRIES
                THEN /\ run' = [run EXCEPT ![p] = [rec EXCEPT !.retryCount = @ + 1]]
                     /\ UNCHANGED <<dyn, file, raised>>
                ELSE /\ dyn' = r.dyn
                     /\ file' = r.file
                     /\ raised' = raised \cup Escaped(r, "recordError")
                     /\ run' = [run EXCEPT ![p] = PostFailed(rec)]
  /\ UNCHANGED <<cfg, now, legacy, work, ret>>

\* markTweetAsReplied(mention.id, { heroName: heroFound.name, ... }) after the post.
Mark(p) ==
  /\ run[p].pc = "mark"
  /\ \E ft \in Fates(5, 2) :
       LET r == MarkTweetAsReplied(dyn, file, run[p].mentions[run[p].idx],
                                   [NoMeta EXCEPT !.heroName = run[p].hero], now, ft) IN
       /\ dyn' = r.dyn
       /\ file' = r.file
       /\ raised' = raised \cup Escaped(r, "markTweetAsReplied")
       /\ run' = [run EXCEPT ![p] = [@ EXCEPT !.pc = "advance",
                                              !.marked = IF r.ret THEN @ \cup {run[p].idx} ELSE @]]
       /\ work' = [work EXCEPT !.replied = IF r.ret THEN @ + 1 ELSE @]
  /\ UNCHANGED <<cfg, now, legacy, ret>>

\* saveLastMentionId(mention.id), at the four places the loop body calls it.
Advance(p) ==
  /\ run[p].pc = "advance"
  /\ \E ft \in Fates(2, 2) :
       LET r == SaveLastMentionId(dyn, file, run[p].mentions[run[p].idx], now, ft) IN
       /\ dyn' = r.dyn
       /\ file' = r.file
       /\ raised' = raised \cup Escaped(r, "saveLastMentionId")
       /\ run' = [run EXCEPT ![p] =
            NextMention([@ EXCEPT !.saved = @ \cup {run[p].idx},
                                  !.savedOk = IF r.ret THEN @ \cup {run[p].idx} ELSE @])]
  /\ UNCHANGED <<cfg, now, legacy, work, ret>>

\* endExecution(true, stats) after the loop.
End(p) ==
  /\ run[p].pc = "end"
  /\ \E ft \in Fates(2, 2) :
       LET r == EndExecution(dyn, file, TRUE, run[p].stats, now, ft) IN
       /\ dyn' = r.dyn
       /\ file' = r.file
       /\ raised' = raised \cup Escaped(r, "endExecution")
  /\ run' = [run EXCEPT ![p] = [@ EXCEPT !.pc = "returned", !.outcome = "completed",
                                         !.ended = TRUE]]
  /\ UNCHANGED <<cfg, now, legacy, work, ret>>

\* The invocation is over; its locals are gone.
Return(p) ==
  /\ run[p].pc = "returned"
  /\ run' = [run EXCEPT ![p] = IdleRun]
  /\ UNCHANGED <<cfg, now, dyn, file, legacy, work, ret, raised>>

\* ------------------------------------------------------------------ direct calls

\* USE_DYNAMO_STATE and FALLBACK_TO_FILE as the environment may set them, each
\* backend behaving in one of the given ways. With USE_DYNAMO_STATE unset the
\* DynamoDB manager is disabled (every call fails) and the fallback flag is unread.
ConfigsOf(dynModes, fileModes) ==
  { c \in [useDynamo : BOOLEAN, fallback : BOOLEAN, dynMode : dynModes \cup {"down"},
            fileMode : fileModes] :
      ~c.useDynamo => (c.dynMode = "down" /\ c.fallback) }
\* Each backend healthy or failing every call.
StableConfigs == ConfigsOf({"up", "down"}, {"up", "down"})
\* A backend that fails some of its calls: DynamoDB in front of a healthy file
\* backend or alone, or the file backend alone, there also one that leaves
\* unparsable files behind.
FlakyConfigs ==
  { c \in ConfigsOf({"flaky"}, {"up", "flaky", "bad"}) :
      IF c.useDynamo THEN c.dynMode = "flaky" /\ c.fileMode = "up" ELSE c.fileMode # "up" }

\* log lists what the calls of the longer direct-call scenarios were given.
NoRet == [n |-> 0, op |-> "none", arg |-> NullId, ok |-> FALSE, out |-> NullId, log |-> << >>]
Returned(op, arg, ok, out) ==
  [n |-> ret.n + 1, op |-> op, arg |-> arg, ok |-> ok, out |-> out, log |-> ret.log]

IdArgs == Ids \cup {<< >>, NullId}

InitStores ==
  /\ now = InitialNow
  /\ dyn = EmptyTable
  /\ file = NoFile
  /\ legacy = NoLegacy
  /\ run = [p \in Procs |-> IdleRun]
  /\ work = [runs |-> 0, mentions |-> 0, replied |-> 0]
  /\ ret = NoRet
  /\ raised = {}

CallSaveLastMentionId ==
  /\ ret.n < MaxCalls
  /\ \E id \in IdArgs, ft \in Fates(2, 2) :
       LET r == SaveLastMentionId(dyn, file, id, now, ft) IN
       /\ dyn' = r.dyn
       /\ file' = r.file
       /\ ret' = Returned("saveLastMentionId", id, r.ret, NullId)
       /\ raised' = raised \cup Escaped(r, "saveLastMentionId")
  /\ UNCHANGED <<cfg, now, legacy, run, work>>

CallLoadLastMentionId ==
  /\ ret.n < MaxCalls
  /\ \E ft \in Fates(1, 1) :
       LET r == LoadLastMentionId(dyn, file, ft) IN
       /\ ret' = Returned("loadLastMentionId", NullId, r.ret # NullId, r.ret)
       /\ raised' = raised \cup Escaped(r, "loadLastMentionId")
  /\ UNCHANGED <<cfg, now, dyn, file, legacy, run, work>>

CallHasRepliedToTweet ==
  /\ ret.n < MaxCalls
  /\ \E id \in Ids, ft \in Fates(1, 1) :
       LET r == HasRepliedToTweet(dyn, file, id, ft) IN
       /\ ret' = Returned("hasRepliedToTweet", id, r.ret, NullId)
       /\ raised' = raised \cup Escaped(r, "hasRepliedToTweet")
  /\ UNCHANGED <<cfg, now, dyn, file, legacy, run, work>>

CallMarkTweetAsReplied ==
  /\ ret.n < MaxCalls
  /\ \E id \in Ids, h \in HeroNames \cup {NoHero}, ft \in Fates(5, 2) :
       LET r == MarkTweetAsReplied(dyn, file, id, [NoMeta EXCEPT !.heroName = h], now, ft) IN
       /\ dyn' = r.dyn
       /\ file' = r.file
       /\ ret' = Returned("markTweetAsReplied", id, r.ret, h)
       /\ raised' = raised \cup Escaped(r, "markTweetAsReplied")
  /\ UNCHANGED <<cfg, now, legacy, run, work>>

CallLegacySaveLastMentionId ==
  /\ ret.n < MaxCalls
  /\ \E id \in IdArgs, ft \in Fates(0, 4) :
       LET r == LegacySaveLastMentionId(legacy, id, now, ft) IN
       /\ legacy' = r.store
       /\ ret' = Returned("legacy.saveLastMentionId", id, r.ret, NullId)
  /\ UNCHANGED <<cfg, now, dyn, file, raised, run, work>>

CallStartExecution ==
  /\ ret.n < MaxCalls
  /\ \E ft \in Fates(2, 2) :
       LET r == StartExecution(dyn, file, now, ft) IN
       /\ dyn' = r.dyn
       /\ file' = r.file
       /\ ret' = Returned("startExecution", NullId, r.ret # NoTime, NullId)
       /\ raised' = raised \cup Escaped(r, "startExecution")
  /\ UNCHANGED <<cfg, now, legacy, run, work>>

CallEndExecution ==
  /\ ret.n < MaxCalls
  /\ \E success \in BOOLEAN, ft \in Fates(2, 2) :
       LET r == EndExecution(dyn, file, success, ZeroStats, now, ft) IN
       /\ dyn' = r.dyn
       /\ file' = r.file
       /\ ret' = Returned("endExecution", NullId, r.ret, NullId)
       /\ raised' = raised \cup Escaped(r, "endExecution")
  /\ UNCHANGED <<cfg, now, legacy, run, work>>

CallRecordError ==
  /\ ret.n < MaxCalls
  /\ \E message \in {MsgNotPermitted, MsgTooMany}, ft \in Fates(2, 2) :
       LET r == RecordError(dyn, file, message, CtxPostReply, Digits(ret.n + 1), now, ft) IN
       /\ dyn' = r.dyn
       /\ file' = r.file
       /\ ret' = Returned("recordError", Digits(ret.n + 1), r.ret, NullId)
       /\ raised' = raised \cup Escaped(r, "recordError")
  /\ UNCHANGED <<cfg, now, legacy, run, work>>

Tick ==
  /\ now < InitialNow + MaxNow * TickMs
  /\ now' = now + TickMs
  /\ UNCHANGED <<cfg, dyn, file, legacy, run, work, ret, raised>>

vars == <<cfg, now, dyn, file, legacy, run, work, ret, raised>>

InitCalls == cfg \in StableConfigs /\ InitStores

NextCalls ==
  \/ CallSaveLastMentionId
  \/ CallLoadLastMentionId
  \/ CallHasRepliedToTweet
  \/ CallMarkTweetAsReplied
  \/ Tick

\* The facade called directly, in any order, each backend healthy or down.
SpecCalls == InitCalls /\ [][NextCalls]_vars

InitFlaky == cfg \in FlakyConfigs /\ InitStores

NextFlaky ==
  \/ CallSaveLastMentionId
  \/ CallLoadLastMentionId
  \/ CallHasRepliedToTweet
  \/ CallMarkTweetAsReplied
  \/ CallStartExecution
  \/ CallEndExecution
  \/ CallRecordError

\* The facade called directly while backend calls fail intermittently.
SpecFlaky == InitFlaky /\ [][NextFlaky]_vars

InitLegacy == cfg \in ConfigsOf({"down"}, {"up", "down", "flaky"}) /\ ~cfg.useDynamo /\ InitStores

NextLegacy ==
  \/ CallLegacySaveLastMentionId
  \/ Tick

\* The single-file state manager called directly.
SpecLegacy == InitLegacy /\ [][NextLegacy]_vars

\* ------------------------------------------------------------------ run bracketing
\* The executionMetrics a reader is served: DynamoDB's item when DynamoDB is on
\* and holds one, else the file's section.
StoredMetrics ==
  IF USE_DYNAMO /\ dyn.executionMetrics.present THEN dyn.executionMetrics.data
  ELSE file.doc.executionMetrics

\* Some enabled backend takes the writes.
Healthy ==
  \/ cfg.useDynamo /\ cfg.dynMode = "up"
  \/ (~cfg.useDynamo \/ cfg.fallback) /\ cfg.fileMode = "up"

RunStart ==
  /\ ret.n < MaxSteps
  /\ \E ft \in Fates(2, 2) :
       LET r == StartExecution(dyn, file, now, ft) IN
       /\ dyn' = r.dyn
       /\ file' = r.file
       /\ ret' = [Returned("startExecution", NullId, r.ret # NoTime, NullId) EXCEPT
                    !.log = Append(@, [op |-> "start", at |-> now, success |-> TRUE])]
       /\ raised' = raised \cup Escaped(r, "startExecution")
  /\ UNCHANGED <<cfg, now, legacy, run, work>>

RunEnd ==
  /\ ret.n < MaxSteps
  /\ \E success \in BOOLEAN, ft \in Fates(2, 2) :
       LET r == EndExecution(dyn, file, success, ZeroStats, now, ft) IN
       /\ dyn' = r.dyn
       /\ file' = r.file
       /\ ret' = [Returned("endExecution", NullId, r.ret, NullId) EXCEPT
                    !.log = Append(@, [op |-> "end", at |-> now, success |-> success])]
       /\ raised' = raised \cup Escaped(r, "endExecution")
  /\ UNCHANGED <<cfg, now, legacy, run, work>>

NextRuns ==
  \/ RunStart
  \/ RunEnd
  \/ Tick

\* startExecution and endExecution called directly, in any order, each backend
\* healthy or down.
SpecRuns == InitCalls /\ [][NextRuns]_vars

\* ------------------------------------------------------------------ error recording
\* The errors a reader is served: DynamoDB's item when DynamoDB is on and holds
\* one, else the file's section.
StoredErrors ==
  IF USE_DYNAMO /\ dyn.errors.present THEN dyn.errors.data ELSE file.doc.errors

\* What recordError is called with: <<message, context>>. The first is an error
\* the bot records, the others are ones shouldIgnoreError filters out by the
\* message or by the context.
ErrorInputs ==
  { <<MsgNotPermitted, CtxPostReply>>,
    <<MsgTooMany, CtxPostReply>>, <<MsgRateLimit, CtxBatch>>, <<MsgTypeError, CtxUsername>>,
    <<MsgNotPermitted, MsgTooMany>> }

\* One recordError call. The log lists the calls that were not filtered out; an
\* entry carries its position in the log as the text that tells it apart.
ErrorRecorded ==
  /\ ret.n < MaxErrors
  /\ \E in \in ErrorInputs, ft \in Fates(2, 2) :
       LET id == Digits(Len(ret.log) + 1)
           r == RecordError(dyn, file, in[1], in[2], id, now, ft) IN
       /\ dyn' = r.dyn
       /\ file' = r.file
       /\ ret' = [Returned("recordError", in[1], r.ret, in[2]) EXCEPT
                    !.log = IF shouldIgnoreError(in[1], in[2]) THEN @
                            ELSE Append(@, [op |-> "error", id |-> id, message |-> in[1],
                                            context |-> in[2]])]
       /\ raised' = raised \cup Escaped(r, "recordError")
  /\ UNCHANGED <<cfg, now, legacy, run, work>>

NextErrors == ErrorRecorded

\* recordError called over and over, each backend healthy or down.
SpecErrors == InitCalls /\ [][NextErrors]_vars

\* ------------------------------------------------------------------ statistics reads
\* DynamoDB on and intermittent in front of a healthy file, with and without the
\* fallback: the writes of one behaviour land in both backends.
StatsConfigs == { c \in FlakyConfigs : c.useDynamo }

\* One getStatistics call; arg keeps which of its DynamoDB reads were answered.
CallGetStatistics ==
  /\ ret.n < MaxCalls
  /\ \E ft \in Fates(5, 1) :
       LET r == GetStatistics(dyn, file, ft) IN
       /\ dyn' = r.dyn
       /\ file' = r.file
       /\ ret' = Returned("getStatistics", ft.d, TRUE, r.ret)
       /\ raised' = raised \cup Escaped(r, "getStatistics")
  /\ UNCHANGED <<cfg, now, legacy, run, work>>

InitStats == cfg \in StatsConfigs /\ InitStores

NextStats ==
  \/ CallSaveLastMentionId
  \/ CallMarkTweetAsReplied
  \/ CallStartExecution
  \/ CallRecordError
  \/ CallGetStatistics

\* Writes through the facade and getStatistics, DynamoDB failing now and then.
SpecStats == InitStats /\ [][NextStats]_vars

\* ------------------------------------------------------------------ resets
CallResetState ==
  /\ ret.n < MaxCalls
  /\ \E ft \in Fates(5, 1) :
       LET r == ResetState(dyn, file, ft) IN
       /\ dyn' = r.dyn
       /\ file' = r.file
       /\ ret' = Returned("resetState", NullId, r.ret, NullId)
       /\ raised' = raised \cup Escaped(r, "resetState")
  /\ UNCHANGED <<cfg, now, legacy, run, work>>

CallLegacyResetState ==
  /\ ret.n < MaxCalls
  /\ \E ft \in Fates(0, 2) :
       LET r == LegacyResetState(legacy, ft) IN
       /\ legacy' = r.store
       /\ ret' = Returned("legacy.resetState", NullId, r.ret, NullId)
  /\ UNCHANGED <<cfg, now, dyn, file, raised, run, work>>

NextReset ==
  \/ CallSaveLastMentionId
  \/ CallMarkTweetAsReplied
  \/ CallResetState
  \/ CallLegacySaveLastMentionId
  \/ CallLegacyResetState

\* Writes and resets through the facade and through the single-file state
\* manager while backend calls fail intermittently.
SpecReset == InitFlaky /\ [][NextReset]_vars

\* ------------------------------------------------------------------ retention
CallLegacyMarkTweetAsReplied ==
  /\ ret.n < MaxCalls
  /\ \E id \in Ids, h \in HeroNames \cup {NoHero}, ft \in Fates(0, 4) :
       LET r == LegacyMarkTweetAsReplied(legacy, id, [NoMeta EXCEPT !.heroName = h], now, ft) IN
       /\ legacy' = r.store
       /\ ret' = Returned("legacy.markTweetAsReplied", id, r.ret, h)
  /\ UNCHANGED <<cfg, now, dyn, file, raised, run, work>>

\* Days go by between two calls.
DaysPass ==
  /\ now < InitialNow + MaxLeaps * LeapMs
  /\ now' = now + LeapMs
  /\ UNCHANGED <<cfg, dyn, file, legacy, run, work, ret, raised>>

NextRetention ==
  \/ CallMarkTweetAsReplied
  \/ CallHasRepliedToTweet
  \/ CallLegacyMarkTweetAsReplied
  \/ DaysPass

\* Replies recorded days apart, through the facade and through the single-file
\* state manager.
SpecRetention == InitCalls /\ [][NextRetention]_vars

\* ------------------------------------------------------------------ backups
\* A deployment runs on one of the two state managers, stateManager.mjs or the
\* single-file manager it replaced: the first call of a behaviour settles which.
Manager ==
  CASE ret.op = "none" -> {"facade", "single-file"}
    [] ret.op = "saveLastMentionId" -> {"facade"}
    [] OTHER -> {"single-file"}

\* saveLastMentionId called again and again with the newest id.
SaveAgain ==
  /\ ret.n < MaxSaves
  /\ "facade" \in Manager
  /\ \E ft \in Fates(2, 2) :
       LET r == SaveLastMentionId(dyn, file, Digits(MaxId), now, ft) IN
       /\ dyn' = r.dyn
       /\ file' = r.file
       /\ ret' = Returned("saveLastMentionId", Digits(MaxId), r.ret, NullId)
       /\ raised' = raised \cup Escaped(r, "saveLastMentionId")
  /\ UNCHANGED <<cfg, now, legacy, run, work>>

LegacySaveAgain ==
  /\ ret.n < MaxSaves
  /\ "single-file" \in Manager
  /\ \E ft \in Fates(0, 4) :
       LET r == LegacySaveLastMentionId(legacy, Digits(MaxId), now, ft) IN
       /\ legacy' = r.store
       /\ ret' = Returned("legacy.saveLastMentionId", Digits(MaxId), r.ret, NullId)
  /\ UNCHANGED <<cfg, now, dyn, file, raised, run, work>>

\* The process ends and a new one starts: let updateCounter = 0.
Restart ==
  /\ legacy.starts < MaxStarts
  /\ legacy.updateCounter # 0
  /\ legacy' = [legacy EXCEPT !.updateCounter = 0, !.starts = @ + 1]
  /\ UNCHANGED <<cfg, now, dyn, file, raised, run, work, ret>>

NextBackups ==
  \/ SaveAgain
  \/ LegacySaveAgain
  \/ Restart

\* Many saves in a row, each backend healthy or down.
SpecBackups == InitCalls /\ [][NextBackups]_vars

\* ------------------------------------------------------------------ the bot
Batch(p) ==
  \/ Start(p)
  \/ Fetch(p)
  \/ FetchThrows(p)
  \/ Dedup(p)
  \/ Extract(p)
  \/ Resolve(p)
  \/ Prepare(p)
  \/ Post(p)
  \/ Mark(p)
  \/ Advance(p)
  \/ End(p)
  \/ Return(p)

Init == cfg \in StableConfigs /\ InitStores

Next == Batch(1)

\* processMentions invoked again and again, one invocation at a time, each
\* backend healthy or down.
Spec == Init /\ [][Next]_vars

\* The steps of an invocation between startExecution and the end of the loop.
Loop(p) ==
  Fetch(p) \/ Dedup(p) \/ Extract(p) \/ Resolve(p) \/ Prepare(p) \/ Post(p) \/ Mark(p) \/ Advance(p)

\* The same, where a started invocation that can take a step takes one: every
\* call it awaits returns or throws. endExecution after the loop is enabled
\* exactly when the invocation is at it and always moves it on, so weak fairness
\* of that step is []<>(pc # "end").
\* DynamoDB is on and down in front of a working file fallback, so that every
\* state call of the invocation fails on the one and succeeds on the other.
TerminationConfigs ==
  { c \in StableConfigs :
      c.useDynamo /\ c.fallback /\ c.dynMode = "down" /\ c.fileMode = "up" }
InitTermination == cfg \in TerminationConfigs /\ InitStores
SpecTermination ==
  InitTermination /\ [][Next]_vars /\ WF_vars(Loop(1)) /\ []<>(run[1].pc # "end")

\* Both backends healthy, DynamoDB alone or the file alone in use; the platform
\* returns at most MaxOverlapBatch mentions to one getMentions call.
OverlapConfigs ==
  { [useDynamo |-> c.useDynamo, fallback |-> c.fallback, dynMode |-> c.dynMode,
     fileMode |-> c.fileMode, batch |-> MaxOverlapBatch] :
      c \in { c \in StableConfigs :
                /\ c.dynMode = (IF c.useDynamo THEN "up" ELSE "down")
                /\ c.fileMode = "up"
                /\ c.useDynamo => ~c.fallback } }

InitOverlap == cfg \in OverlapConfigs /\ InitStores

NextOverlap == Batch(1) \/ Batch(2)

\* Two processMentions invocations on the same state, interleaved at their
\* awaits: setInterval starts the next one whether or not the last has returned.
SpecOverlap == InitOverlap /\ [][NextOverlap]_vars

\* ------------------------------------------------------------------ interrupted saves
\* A file whose write was cut short: it is there, and it is not valid JSON.
Partial == [present |-> TRUE, parsable |-> FALSE, doc |-> getDefaultState]
Written(doc) == [present |-> TRUE, parsable |-> TRUE, doc |-> doc]

\* No save is under way: the state manager is between two calls.
AtRest == ret.op \notin {"fs.writeFile", "tmp.writeFile", "fs.rename"}

\* A save under way: log holds the state file as it was before the save and as
\* the save is to leave it, out which state manager is saving.
Saving(op, id, manager, before, after) ==
  [n |-> ret.n + 1, op |-> op, arg |-> id, ok |-> FALSE, out |-> manager,
   log |-> << before, after >>]

\* saveLastMentionId of the facade on the file backend, up to the point where
\* fileSystem.saveState has opened state.json for fs.writeFile: the file is
\* truncated and its new content on the way.
FileWriteBegins ==
  /\ AtRest /\ ret.n < MaxDiskOps
  /\ \E id \in Ids :
       LET after == SaveLastMentionId(dyn, file, id, now, AllOk(2, 2)).file IN
       /\ file' = Partial
       /\ ret' = Saving("fs.writeFile", id, "facade", file, after)
  /\ UNCHANGED <<cfg, now, dyn, legacy, run, work, raised>>

\* fs.writeFile has written the whole document.
FileWriteEnds ==
  /\ ret.op = "fs.writeFile"
  /\ file' = ret.log[2]
  /\ ret' = [ret EXCEPT !.op = "saved", !.ok = TRUE]
  /\ UNCHANGED <<cfg, now, dyn, legacy, run, work, raised>>

\* saveLastMentionId of the single-file state manager, up to the point where
\* saveState has opened state.json.tmp for fs.writeFile.
TmpWriteBegins ==
  /\ AtRest /\ ret.n < MaxDiskOps
  /\ \E id \in Ids :
       LET after == LegacySaveLastMentionId(legacy, id, now, AllOk(0, 4)) IN
       /\ legacy' = [legacy EXCEPT !.tmp = Partial]
       /\ ret' = Saving("tmp.writeFile", id, "single-file", legacy.main, after.store.main)
  /\ UNCHANGED <<cfg, now, dyn, file, run, work, raised>>

\* fs.writeFile(tempFile, ...) has written the whole document.
TmpWriteEnds ==
  /\ ret.op = "tmp.writeFile"
  /\ legacy' = [legacy EXCEPT !.tmp = ret.log[2]]
  /\ ret' = [ret EXCEPT !.op = "fs.rename"]
  /\ UNCHANGED <<cfg, now, dyn, file, run, work, raised>>

\* fs.rename(tempFile, STATE_FILE_PATH), updateCounter++ and the periodic backup.
Rename ==
  /\ ret.op = "fs.rename"
  /\ legacy' = [LegacySaveState(legacy, legacy.tmp.doc, "ok").store EXCEPT !.tmp = NoFile]
  /\ ret' = [ret EXCEPT !.op = "saved", !.ok = TRUE]
  /\ UNCHANGED <<cfg, now, dyn, file, run, work, raised>>

\* The process stops where it is (it is killed, the machine loses power): the
\* files stay as they are, the variables of the process are gone.
Stop ==
  /\ ~AtRest
  /\ legacy' = [legacy EXCEPT !.updateCounter = 0, !.starts = @ + 1]
  /\ ret' = [ret EXCEPT !.op = "stopped"]
  /\ UNCHANGED <<cfg, now, dyn, file, run, work, raised>>

\* The file backend alone, healthy.
FileOnlyConfigs == { c \in StableConfigs : ~c.useDynamo /\ c.fileMode = "up" }
InitCrash == cfg \in FileOnlyConfigs /\ InitStores

NextCrash ==
  \/ FileWriteBegins
  \/ FileWriteEnds
  \/ TmpWriteBegins
  \/ TmpWriteEnds
  \/ Rename
  \/ Stop

\* Saves of either state manager, each of which the end of the process may cut
\* short at any step.
SpecCrash == InitCrash /\ [][NextCrash]_vars

\* ------------------------------------------------------------------ damaged state files
\* A state document without its replies section.
WithoutReplies(doc) == [ k \in (DOMAIN doc) \ {"replies"} |-> doc[k] ]

\* The state file of one of the state managers is damaged from outside the
\* program (a disk fault, an edit by hand, a save cut short): it becomes
\* unparsable, or a valid JSON document that lacks a section.
Damage ==
  /\ ret.n < MaxDiskOps
  /\ \E manager \in {"facade", "single-file"}, kind \in {"unparsable", "incomplete"} :
       LET target == IF manager = "facade" THEN file ELSE legacy.main
           damaged == IF kind = "unparsable" THEN Partial
                      ELSE Written(WithoutReplies(target.doc))
       IN /\ target.present /\ target.parsable /\ Complete(target.doc)
          /\ IF manager = "facade"
             THEN file' = damaged /\ UNCHANGED legacy
             ELSE legacy' = [legacy EXCEPT !.main = damaged] /\ UNCHANGED file
          /\ ret' = [n |-> ret.n + 1, op |-> "damage", arg |-> NullId, ok |-> FALSE,
                     out |-> manager, log |-> << >>]
  /\ UNCHANGED <<cfg, now, dyn, run, work, raised>>

\* A load: log holds the document returned, the state file as it was before the
\* load, and the backups there were.
Loaded(manager, doc, before, backups) ==
  [n |-> ret.n + 1, op |-> "loadState", arg |-> NullId, ok |-> TRUE, out |-> manager,
   log |-> << doc, before, backups >>]

\* The load of the facade's operations on the file backend:
\* await fileSystem.loadState('state') || getDefaultState().
CallFileLoadState ==
  /\ ret.n < MaxDiskOps
  /\ ret' = Loaded("facade", FileLoadOrDefault(file, "ok"), file, FileBackups(file))
  /\ UNCHANGED <<cfg, now, dyn, file, legacy, run, work, raised>>

\* loadState() of the single-file state manager.
CallLegacyLoadState ==
  /\ ret.n < MaxDiskOps
  /\ LET l == LegacyLoadState(legacy, "ok", "ok", "ok") IN
       /\ legacy' = l.store
       /\ ret' = Loaded("single-file", l.doc, legacy.main, legacy.backups)
  /\ UNCHANGED <<cfg, now, dyn, file, run, work, raised>>

NextRecovery ==
  \/ CallSaveLastMentionId
  \/ CallLegacySaveLastMentionId
  \/ CallLegacyResetState
  \/ Damage
  \/ CallFileLoadState
  \/ CallLegacyLoadState

\* Saves, resets (which take a backup), damage to the state file, and loads.
SpecRecovery == InitCrash /\ [][NextRecovery]_vars

\* ------------------------------------------------------------------ reply length
MAX_TWEET_LENGTH == 280
\* "\nCheck out more on Fantasy Top!".length
CallToActionLength == 31

\* The length of createHeroInfoResponse(heroInfo, username).text, for a username
\* of the given length (0: none) and a heading and rarity lines of bodyLength
\* characters: `@${username} ` in front when there is a username, the call to
\* action when it fits, else the message cut to MAX_TWEET_LENGTH - 3 characters
\* and '...' when it is too long.
HeroResponseLength(usernameLength, bodyLength) ==
  LET message == (IF usernameLength > 0 THEN usernameLength + 2 ELSE 0) + bodyLength
  IN IF message + CallToActionLength <= MAX_TWEET_LENGTH THEN message + CallToActionLength
     ELSE IF message > MAX_TWEET_LENGTH THEN (MAX_TWEET_LENGTH - 3) + 3
     ELSE message

\* The length of formatReplyText(reply, mentionType, userInfo):
\* `@${userInfo.authorUsername} ${reply.text}` for a direct mention with a known
\* author, reply.text otherwise.
ReplyTextLength(textLength, isDirect, usernameLength) ==
  IF isDirect /\ usernameLength > 0 THEN usernameLength + 2 + textLength ELSE textLength

\* processMentions composes the reply for one mention: out is the length of the
\* text it passes to postTweet, arg what it was composed from.
ComposeReply ==
  /\ ret.n < MaxComposed
  /\ \E usernameLength \in {0, 1, MaxUsernameLength}, bodyLength \in 1 .. MaxBodyLength,
        isDirect \in BOOLEAN :
       ret' = [n |-> ret.n + 1, op |-> "formatReplyText",
               arg |-> << usernameLength, bodyLength, isDirect >>, ok |-> TRUE,
               out |-> ReplyTextLength(HeroResponseLength(usernameLength, bodyLength),
                                       isDirect, usernameLength),
               log |-> << >>]
  /\ UNCHANGED <<cfg, now, dyn, file, legacy, run, work, raised>>

\* Replies composed for market texts and usernames of every length.
SpecLength == InitCrash /\ [][ComposeReply]_vars

\* ------------------------------------------------------------------ synchronisation
\* State documents as the bot leaves them: a cursor or none, replies to some of
\* the ids, each with its repliedAt and hero, counted in count and byHero.
SourceDocs ==
  { [getDefaultState EXCEPT
       !.twitter = [lastMentionId |-> id,
                    processedCount |-> IF id = NullId THEN 0 ELSE 1,
                    lastProcessedAt |-> IF id = NullId THEN NoTime ELSE InitialNow],
       !.replies = [count |-> Cardinality(ids),
                    byHero |-> IF ids = {} THEN EmptyMap
                               ELSE MapPut(EmptyMap, zed, Cardinality(ids)),
                    history |-> [ i \in ids |-> [NoMeta EXCEPT !.repliedAt = InitialNow,
                                                               !.heroName = Zed] ]]] :
      id \in Ids \cup {NullId}, ids \in SUBSET Ids }

\* The fates of the DynamoDB calls of one import, export or synchronisation: at
\* most MaxFailures of them fail.
SyncFates(nd) ==
  { ft \in Fates(nd, 1) : Cardinality({ k \in 1 .. nd : ft.d[k] # "ok" }) <= MaxFailures }

\* One call; log holds the document imported (and then the one exported), arg
\* the fates of its DynamoDB calls, out those of the import before an export.
Synced(op, fates, ok, before, docs) ==
  [n |-> ret.n + 1, op |-> op, arg |-> fates, ok |-> ok, out |-> before, log |-> docs]

CallImportFullState ==
  /\ ret.n < MaxSyncCalls
  /\ \E doc \in SourceDocs, ft \in SyncFates(5 + Cardinality(Ids)) :
       LET r == ImportFullState(dyn, doc, ft.d) IN
       /\ dyn' = r.store
       /\ ret' = Synced("importFullState", ft.d, r.ret, dyn, << doc >>)
  /\ UNCHANGED <<cfg, now, file, legacy, run, work, raised>>

CallExportFullState ==
  /\ ret.n < MaxSyncCalls
  /\ \E ft \in SyncFates(5), queryFate \in QueryFates :
       LET r == ExportFullState(dyn, ft.d, queryFate) IN
       ret' = Synced("exportFullState", ft.d, r.found,
                     IF ret.op = "importFullState" THEN << ret.out, ret.arg >> ELSE << >>,
                     IF ret.op = "importFullState" THEN << ret.log[1], r.doc >> ELSE << r.doc >>)
  /\ UNCHANGED <<cfg, now, dyn, file, legacy, run, work, raised>>

CallSynchronizeState ==
  /\ ret.n < MaxSyncCalls
  /\ \E direction \in {"toDynamo", "toFile"}, ft \in SyncFates(5 + Cardinality(Ids)),
        queryFate \in QueryFates :
       LET r == SynchronizeState(dyn, file, direction, ft.d, queryFate, ft) IN
       /\ dyn' = r.dyn
       /\ file' = r.file
       /\ ret' = Synced(direction, ft.d, r.ret, dyn,
                        IF direction = "toDynamo" THEN << file.doc >> ELSE << >>)
  /\ UNCHANGED <<cfg, now, legacy, run, work, raised>>

\* DynamoDB the primary, failing some of its calls or none, in front of a
\* working file backend.
SyncConfigs == { c \in FlakyConfigs : c.useDynamo }
InitSync == cfg \in SyncConfigs /\ InitStores

NextSync ==
  \/ CallSaveLastMentionId
  \/ CallImportFullState
  \/ CallExportFullState
  \/ CallSynchronizeState

\* Imports, exports and synchronisations among writes through the facade.
SpecSync == InitSync /\ [][NextSync]_vars

\* ------------------------------------------------------------------ changed deployment
\* The process ends and the next one starts with other values of
\* USE_DYNAMO_STATE and FALLBACK_TO_FILE, or with a backend that has come up or
\* gone down; the table and the state file are as the last process left them.
Redeploy ==
  /\ legacy.starts < MaxStarts
  /\ cfg' \in StableConfigs \ {cfg}
  /\ legacy' = [legacy EXCEPT !.updateCounter = 0, !.starts = @ + 1]
  /\ UNCHANGED <<now, dyn, file, run, work, ret, raised>>

NextSwitch ==
  \/ CallSaveLastMentionId
  \/ CallLoadLastMentionId
  \/ CallHasRepliedToTweet
  \/ CallMarkTweetAsReplied
  \/ CallStartExecution
  \/ CallEndExecution
  \/ CallRecordError
  \/ CallResetState
  \/ CallGetStatistics
  \/ Redeploy

\* The facade called directly, before and after a change of deployment.
SpecSwitch == InitCalls /\ [][NextSwitch]_vars

\* ------------------------------------------------------------------ properties
Range(seq) == { seq[i] : i \in DOMAIN seq }

\* The positions of the sorted list the loop is done with.
Handled(rec) ==
  { i \in 1 .. Len(rec.mentions) : i < rec.idx } \cup
  (IF rec.pc = "end" \/ (rec.pc = "returned" /\ rec.outcome = "completed")
   THEN 1 .. Len(rec.mentions) ELSE {})

\* saveLastMentionId for position i is the last thing the invocation did.
JustAdvanced(rec, i) ==
  /\ i \in rec.saved
  /\ \/ rec.pc = "dedup" /\ rec.idx = i + 1
     \/ rec.pc = "end" /\ rec.idx = i

\* C1: within one batch postTweet is invoked at most once per mention id, retries
\* of one attempt aside, also when the fetched list holds the id twice (the stored
\* histories are maps keyed by id, so they hold at most one entry per id).
C1_AtMostOnceReply ==
  \A p \in Procs : \A i, j \in DOMAIN run[p].posts :
    run[p].mentions[run[p].posts[i]] = run[p].mentions[run[p].posts[j]]
      => run[p].posts[i] = run[p].posts[j]

\* C2: when a run is over the persisted cursor is the one the run started with, or
\* the largest id, in the platform's order, among the mentions the run called
\* saveLastMentionId for; and it is never smaller than the one the run started with.
C2_CursorMonotone ==
  \A p \in Procs :
    run[p].pc = "returned" =>
      LET advanced == { run[p].mentions[i] : i \in run[p].saved } IN
      /\ \/ StoredCursor = run[p].cursorBefore
         \/ /\ StoredCursor \in advanced
            /\ \A id \in advanced : IdValue(id) <= IdValue(StoredCursor)
      /\ run[p].cursorBefore # NullId =>
           StoredCursor # NullId /\ IdValue(StoredCursor) >= IdValue(run[p].cursorBefore)

\* C3: when the resolver fails with a rate-limit error on a candidate of mention
\* m, the invocation is over at once, without endExecution: saveLastMentionId was
\* not called and postTweet not issued for m or any later mention, and the
\* persisted cursor is the one found when m was reached.
C3_RateLimitAbort ==
  \A p \in Procs :
    run[p].outcome = "aborted" =>
      /\ run[p].pc = "returned"
      /\ ~run[p].ended
      /\ \A i \in run[p].idx .. Len(run[p].mentions) :
           i \notin run[p].saved /\ i \notin Range(run[p].posts)
      /\ StoredCursor = run[p].cursorAt

\* An abort on the second mention, after the cursor moved to the first.
C3_Witness ==
  \E p \in Procs :
    /\ run[p].outcome = "aborted"
    /\ run[p].idx = 2
    /\ 1 \in run[p].savedOk
    /\ StoredCursor = run[p].mentions[1]

\* C4: for every mention the loop is done with that was not skipped as already
\* replied to (and did not abort the batch), saveLastMentionId(mention.id) was
\* called, whatever became of the reply.
C4_AdvanceRegardless ==
  \A p \in Procs : \A i \in Handled(run[p]) :
    i \notin run[p].skipped => i \in run[p].saved

\* C5: with DynamoDB the primary and failing every call, the fallback enabled and
\* the file backend working, saveLastMentionId(id) and markTweetAsReplied(id, m)
\* return true, loadLastMentionId then returns id, hasRepliedToTweet(id) returns
\* true, and the file's state document holds the write.
C5_FallbackTransparency ==
  (cfg.useDynamo /\ cfg.dynMode = "down" /\ cfg.fallback /\ cfg.fileMode = "up") =>
    /\ (ret.op = "saveLastMentionId" /\ ~Falsy(ret.arg)) =>
         /\ ret.ok
         /\ \A ft \in Fates(1, 1) : LoadLastMentionId(dyn, file, ft).ret = ret.arg
         /\ file.present /\ file.parsable /\ file.doc.twitter.lastMentionId = ret.arg
    /\ ret.op = "markTweetAsReplied" =>
         /\ ret.ok
         /\ \A ft \in Fates(1, 1) : HasRepliedToTweet(dyn, file, ret.arg, ft).ret
         /\ file.present /\ file.parsable /\ ret.arg \in DOMAIN file.doc.replies.history

\* Both writes made through the fallback, the mark last.
C5_Witness ==
  /\ cfg.useDynamo /\ cfg.dynMode = "down" /\ cfg.fallback /\ cfg.fileMode = "up"
  /\ ret.op = "markTweetAsReplied" /\ ret.ok
  /\ file.doc.twitter.lastMentionId \in Ids
  /\ dyn = EmptyTable

C7_TooOld ==
  \A p \in Procs : \A i \in run[p].tooOld :
    /\ i \notin Range(run[p].posts)
    /\ run[p].mentions[i] \notin DOMAIN file.doc.replies.history
    /\ run[p].mentions[i] \notin DOMAIN dyn.tweets
    /\ i \in Handled(run[p]) => i \in run[p].saved
    /\ (JustAdvanced(run[p], i) /\ i \in run[p].savedOk) => StoredCursor = run[p].mentions[i]

\* The cursor has just moved from an earlier id to that of a too-old mention.
C7_Witness ==
  \E p \in Procs : \E i \in run[p].tooOld :
    /\ JustAdvanced(run[p], i)
    /\ i \in run[p].savedOk
    /\ StoredCursor = run[p].mentions[i]
    /\ run[p].cursorAt # StoredCursor

\* C8: saveLastMentionId of the single-file state manager with an empty or falsy
\* id returns false and leaves state.json as it was; with a proper id that it
\* persists it adds exactly one to processedCount and stamps lastProcessedAt.
C8_SaveLastMentionId ==
  [][(ret'.n = ret.n + 1 /\ ret'.op = "legacy.saveLastMentionId") =>
       IF Falsy(ret'.arg)
       THEN ~ret'.ok /\ legacy' = legacy
       ELSE ret'.ok =>
              /\ legacy'.main.doc.twitter.lastMentionId = ret'.arg
              /\ legacy'.main.doc.twitter.processedCount =
                   (IF legacy.main.present THEN legacy.main.doc.twitter.processedCount ELSE 0) + 1
              /\ legacy'.main.doc.twitter.lastProcessedAt = now]_vars

\* C9: with DynamoDB disabled and the file backend working, markTweetAsReplied(id,
\* {heroName: "Zed"}) returns true, hasRepliedToTweet(id) is then true and
\* replies.byHero["zed"] is one more than before; and hasRepliedToTweet(id) only
\* becomes true by a markTweetAsReplied of that id.
C9_DedupWriteRead ==
  [][(~cfg.useDynamo /\ cfg.fileMode = "up") =>
       /\ (ret'.n = ret.n + 1 /\ ret'.op = "markTweetAsReplied") =>
            /\ ret'.ok
            /\ \A ft \in Fates(1, 1) : HasRepliedToTweet(dyn', file', ret'.arg, ft).ret
            /\ ret'.out = Zed =>
                 /\ zed \in DOMAIN file'.doc.replies.byHero
                 /\ file'.doc.replies.byHero[zed] = MapGet0(file.doc.replies.byHero, zed) + 1
       /\ \A id \in Ids, ft \in Fates(1, 1) :
            (HasRepliedToTweet(dyn', file', id, ft).ret /\ ~HasRepliedToTweet(dyn, file, id, ft).ret)
              => (ret'.op = "markTweetAsReplied" /\ ret'.arg = id)]_vars

\* Two replies naming the hero, one as "Zed": both counted under "zed".
C9_Witness ==
  /\ ~cfg.useDynamo /\ cfg.fileMode = "up"
  /\ ret.op = "markTweetAsReplied" /\ ret.out = Zed /\ ret.ok
  /\ MapGet0(file.doc.replies.byHero, zed) = 2
  /\ Ids \ DOMAIN file.doc.replies.history # {}

\* C10: the stored reply count, in the backend that serves the writes, is the
\* number of replies posted and then recorded by a markTweetAsReplied that
\* returned true, with or without a hero name.
C10_ReplyCount ==
  /\ (cfg.useDynamo /\ cfg.dynMode = "up") =>
       (IF dyn.replyCount.present THEN dyn.replyCount.data ELSE 0) = work.replied
  /\ (~(cfg.useDynamo /\ cfg.dynMode = "up") /\ cfg.fallback /\ cfg.fileMode = "up") =>
       file.doc.replies.count = work.replied

\* The rates both backends hold.
StoredRates == { dyn.executionMetrics.data.successRate, file.doc.executionMetrics.successRate }

\* C11: whatever startExecution and endExecution calls were made, with whatever
\* success flags, every stored successRate is a number from 0 to 100 (or is not
\* set yet).
C11_SuccessRateBound ==
  \A r \in StoredRates : r # NoRat => RatLeq(RatInt(0), r) /\ RatLeq(r, RatInt(100))

\* Three endExecution calls went by and the stored rate is strictly between 0 and 100.
C11_Witness ==
  /\ Cardinality({ i \in DOMAIN ret.log : ret.log[i].op = "end" }) = 3
  /\ StoredMetrics.successRate # NoRat
  /\ StoredMetrics.successRate \notin { RatInt(0), RatInt(100) }

\* C12: an endExecution(success) that finds n = totalRuns >= 1 and a previous
\* successRate s from 0 to 100, 0 included, stores
\* min(100, (min(s*(n-1)/100, n-1) + (success ? 1 : 0)) / n * 100).
C12_SuccessRateUpdate ==
  [][(/\ ret'.n = ret.n + 1 /\ ret'.op = "endExecution"
      /\ Healthy
      /\ StoredMetrics.totalRuns >= 1
      /\ StoredMetrics.successRate # NoRat) =>
       LET n == StoredMetrics.totalRuns
           s == StoredMetrics.successRate
           prevSuccesses == RatMin(RatDiv(RatMul(s, RatInt(n - 1)), RatInt(100)), RatInt(n - 1))
           b == IF ret'.log[Len(ret'.log)].success THEN 1 ELSE 0
       IN StoredMetrics'.successRate =
            RatMin(RatInt(100),
                   RatMul(RatDiv(RatAdd(prevSuccesses, RatInt(b)), RatInt(n)), RatInt(100)))]_vars

\* The log is whole runs: startExecution, endExecution, startExecution, ...
WholeRuns(log) ==
  /\ Len(log) % 2 = 0
  /\ \A i \in DOMAIN log : log[i].op = (IF i % 2 = 1 THEN "start" ELSE "end")

\* The sum of the durations of the first k runs of a log of whole runs.
RECURSIVE SumDurations(_, _)
SumDurations(log, k) ==
  IF k = 0 THEN 0 ELSE SumDurations(log, k - 1) + (log[2 * k].at - log[2 * k - 1].at)

\* C13: after n runs, each one startExecution then one endExecution, the stored
\* avgRunDuration is the arithmetic mean of the n durations.
C13_RollingAverage ==
  (Healthy /\ WholeRuns(ret.log) /\ Len(ret.log) > 0) =>
    StoredMetrics.avgRunDuration =
      Rat(SumDurations(ret.log, Len(ret.log) \div 2), Len(ret.log) \div 2)

\* Three runs, one of which took a clock tick: the mean is a third of it.
C13_Witness ==
  /\ Healthy /\ WholeRuns(ret.log) /\ Len(ret.log) = 6
  /\ StoredMetrics.avgRunDuration = Rat(TickMs, 3)

\* errors is a ring buffer: at most twenty entries, the newest (the one recorded
\* by the latest call) first, and last is the first of them.
RingBuffer(e) ==
  /\ Len(e.history) <= MaxErrorHistory
  /\ e.history # << >> => e.last = e.history[1]
  /\ \A i, j \in DOMAIN e.history : i < j => IdValue(e.history[i].id) > IdValue(e.history[j].id)

\* e2 is e after one more error: one more counted, the new entry first, the
\* entries of e after it in their order, the oldest dropped when that makes 21.
Pushed(e, e2) ==
  /\ e2.count = e.count + 1
  /\ e2.history # << >>
  /\ LET h == << e2.history[1] >> \o e.history
     IN e2.history = IF Len(h) > MaxErrorHistory THEN SubSeq(h, 1, MaxErrorHistory) ELSE h

\* C14: the errors each backend holds are a ring buffer of at most 20 entries,
\* newest first, with last = history[0]; a recordError call leaves a backend's
\* errors as they were or counts one more and puts the new entry first, and an
\* entry leaves the history only as the oldest of 21.
C14_ErrorRingBuffer ==
  [][(ret'.n = ret.n + 1 /\ ret'.op = "recordError") =>
       /\ RingBuffer(dyn'.errors.data)
       /\ dyn'.errors.data = dyn.errors.data \/ Pushed(dyn.errors.data, dyn'.errors.data)
       /\ file'.parsable =>
            /\ RingBuffer(file'.doc.errors)
            /\ file'.doc.errors = file.doc.errors \/ Pushed(file.doc.errors, file'.doc.errors)]_vars

\* C15: a recordError whose context contains a pattern of the ignore list, or
\* whose message contains 'Rate limit', 'Too Many Requests' or '429', leaves the
\* errors of both backends as they were; any other error is counted and made
\* the last and first entry of the errors served (some enabled backend storing).
C15_IgnoredErrors ==
  [][(ret'.n = ret.n + 1 /\ ret'.op = "recordError") =>
       LET message == ret'.arg
           context == ret'.out
           ignored == \/ Includes(context, "Failed to get username for author_id")
                      \/ Includes(context, "Response code 429 (Too Many Requests)")
                      \/ Includes(message, "Rate limit")
                      \/ Includes(message, "Too Many Requests")
                      \/ Includes(message, "429")
       IN IF ignored
          THEN dyn'.errors = dyn.errors /\ file' = file
          ELSE Healthy =>
                 /\ StoredErrors'.count = StoredErrors.count + 1
                 /\ StoredErrors'.last.message = message
                 /\ StoredErrors'.last.context = context
                 /\ StoredErrors'.history[1] = StoredErrors'.last]_vars

\* A rate-limit error was just passed to recordError, after 21 recorded ones.
C15_Witness ==
  /\ Healthy
  /\ ret.op = "recordError" /\ ret.arg = MsgRateLimit
  /\ StoredErrors.count = MaxErrorHistory + 1
  /\ Len(StoredErrors.history) = MaxErrorHistory

\* What the primary backend (DynamoDB) and the fallback (the file) hold, field by
\* field of the snapshot; recent is the replied tweets, latest first.
PrimaryHolds ==
  [lastMentionId |-> IF dyn.lastMentionId.present THEN dyn.lastMentionId.data.id ELSE NullId,
   processedCount |-> IF dyn.lastMentionId.present THEN dyn.lastMentionId.data.processedCount ELSE 0,
   lastProcessedAt |-> IF dyn.lastMentionId.present THEN dyn.lastMentionId.data.lastProcessedAt
                       ELSE NoTime,
   total |-> IF dyn.replyCount.present THEN dyn.replyCount.data ELSE 0,
   byHero |-> IF dyn.heroStats.present THEN dyn.heroStats.data ELSE EmptyMap,
   recent |-> RecentFirst(dyn.tweets),
   errorCount |-> IF dyn.errors.present THEN dyn.errors.data.count ELSE 0,
   errorLast |-> IF dyn.errors.present THEN dyn.errors.data.last ELSE NoError,
   metrics |-> dyn.executionMetrics]
FallbackHolds ==
  [lastMentionId |-> file.doc.twitter.lastMentionId,
   processedCount |-> file.doc.twitter.processedCount,
   lastProcessedAt |-> file.doc.twitter.lastProcessedAt,
   total |-> file.doc.replies.count,
   byHero |-> file.doc.replies.byHero,
   recent |-> RecentFirst(file.doc.replies.history),
   errorCount |-> file.doc.errors.count,
   errorLast |-> file.doc.errors.last,
   metrics |-> [present |-> file.present, data |-> file.doc.executionMetrics]]
\* The snapshot, laid out the same way.
Snapshot(stats) ==
  [lastMentionId |-> stats.twitter.lastMentionId,
   processedCount |-> stats.twitter.processedCount,
   lastProcessedAt |-> stats.twitter.lastProcessedAt,
   total |-> stats.replies.total,
   byHero |-> stats.replies.byHero,
   recent |-> stats.replies.last,
   errorCount |-> stats.errors.count,
   errorLast |-> stats.errors.last,
   metrics |-> stats.executionMetrics]
\* The null, zero or empty value of each field.
EmptyHolds == Snapshot(EmptyStats)

\* C16: getStatistics, all its DynamoDB reads answered: every field of the
\* snapshot that is non-null, non-zero or non-empty in the primary has the
\* primary's value; a field that is null, zero or empty in the primary is that
\* or has the fallback's value; and no stored state changes.
C16_StatisticsMerge ==
  [][(/\ ret'.n = ret.n + 1 /\ ret'.op = "getStatistics"
      /\ \A i \in DOMAIN ret'.arg : ret'.arg[i] = "ok") =>
       /\ dyn' = dyn /\ file' = file
       /\ \A x \in DOMAIN EmptyHolds :
            IF PrimaryHolds[x] # EmptyHolds[x]
            THEN Snapshot(ret'.out)[x] = PrimaryHolds[x]
            ELSE Snapshot(ret'.out)[x] \in { EmptyHolds[x], FallbackHolds[x] }]_vars

\* Each enabled backend of the facade holds the defaults: the table's items as
\* resetState writes them and no replied tweet, the file the default document.
HoldsDefaults(d, f) ==
  /\ USE_DYNAMO =>
       /\ \A i \in DOMAIN ResetItems :
            d[ResetItems[i][1]] = [present |-> TRUE, data |-> ResetItems[i][2]]
       /\ DOMAIN d.tweets = {}
  /\ (~USE_DYNAMO \/ FALLBACK_TO_FILE) =>
       f = [present |-> TRUE, parsable |-> TRUE, doc |-> getDefaultState]

\* C17: a resetState that returns true has left the defaults in every enabled
\* backend; the single-file manager's has also put the state it found among the
\* backups before writing the defaults.
C17_ResetState ==
  [][(ret'.n = ret.n + 1 /\ ret'.ok) =>
       /\ ret'.op = "resetState" => HoldsDefaults(dyn', file')
       /\ ret'.op = "legacy.resetState" =>
            /\ legacy'.main = [present |-> TRUE, parsable |-> TRUE, doc |-> getDefaultState]
            /\ legacy.main.present =>
                 /\ legacy'.backups # << >>
                 /\ legacy'.backups[Len(legacy'.backups)] = legacy.main]_vars

WrittenAndPruned(history, history2, id, t) ==
  /\ id \in DOMAIN history2 /\ history2[id].repliedAt = t
  /\ \A x \in DOMAIN history2 : ~(history2[x].repliedAt < t - retentionPeriod)
  /\ \A x \in DOMAIN history \ {id} :
       ~(history[x].repliedAt < t - retentionPeriod) =>
         (x \in DOMAIN history2 /\ history2[x] = history[x])
  /\ CleanedUp(history2, t) = history2

\* C19: a markTweetAsReplied that writes the document leaves in replies.history
\* the new entry and the earlier entries replied to within the last 7 days,
\* and none that is older; pruning what it left changes nothing.
C19_RetentionPruning ==
  [][(ret'.n = ret.n + 1 /\ ret'.ok) =>
       /\ (ret'.op = "markTweetAsReplied" /\ file' # file) =>
            WrittenAndPruned(file.doc.replies.history, file'.doc.replies.history, ret'.arg, now)
       /\ ret'.op = "legacy.markTweetAsReplied" =>
            WrittenAndPruned(IF legacy.main.present THEN legacy.main.doc.replies.history
                             ELSE EmptyMap,
                             legacy'.main.doc.replies.history, ret'.arg, now)]_vars

\* The newest ten of the backups with one more taken.
Rotated(backups, snapshot) ==
  LET all == Append(backups, snapshot)
  IN IF Len(all) > 10 THEN SubSeq(all, Len(all) - 9, Len(all)) ELSE all

\* C20: a successful save that is the 10th, 20th, ... of the document (the
\* document counts them in processedCount) adds a backup of the whole document
\* and leaves at most the 10 most recent backups, the oldest gone first; any
\* other save leaves the backups as they were.
C20_BackupRotation ==
  [][(ret'.n = ret.n + 1 /\ ret'.ok) =>
       /\ (ret'.op = "saveLastMentionId" /\ file' # file) =>
            FileBackups(file') =
              IF file'.doc.twitter.processedCount % 10 = 0
              THEN Rotated(FileBackups(file), file')
              ELSE FileBackups(file)
       /\ ret'.op = "legacy.saveLastMentionId" =>
            legacy'.backups =
              IF legacy'.main.doc.twitter.processedCount % 10 = 0
              THEN Rotated(legacy.backups, legacy'.main)
              ELSE legacy.backups]_vars

\* The dedup entry for id is stored where the facade looks for it.
StoredReply(id) ==
  \/ cfg.useDynamo /\ id \in DOMAIN dyn.tweets
  \/ (~cfg.useDynamo \/ cfg.fallback) /\ file.present /\ file.parsable
       /\ id \in DOMAIN file.doc.replies.history

\* The mentions invocation p has posted a reply to.
PostedIds(p) == { run[p].mentions[i] : i \in run[p].postedOk }

\* C21: nothing coordinates two overlapping invocations: each skips a mention
\* exactly when the dedup entry is stored at the moment of its own
\* hasRepliedToTweet, so two of them that both ask before either has written
\* the entry both go on to post (the witness); one that asks after the other's
\* write skips.
C21_OverlappingRuns ==
  [][\A p \in Procs :
       (run[p].pc = "dedup" /\ run'[p] # run[p]) =>
         ((run[p].idx \in run'[p].skipped) <=> StoredReply(run[p].mentions[run[p].idx]))]_vars

\* Both invocations have posted a reply to the same mention and recorded it.
C21_Witness ==
  /\ PostedIds(1) \cap PostedIds(2) # {}
  /\ run[1].marked # {} /\ run[2].marked # {}
  /\ run[1].pc = "returned" /\ run[2].pc = "end"

\* C22: the list a batch works through is in the platform's order of ids,
\* oldest first, whatever ids were fetched, ids of different lengths included;
\* the loop takes them one at a time, in the order of the list.
C22_ProcessingOrder ==
  \A p \in Procs : \A i, j \in DOMAIN run[p].mentions :
    i < j => IdValue(run[p].mentions[i]) <= IdValue(run[p].mentions[j])

\* C23: an invocation that has returned, whichever way (completed, aborted on
\* a rate limit, thrown), has recorded endExecution.
C23_RunBracketing ==
  \A p \in Procs : run[p].pc = "returned" => run[p].ended

\* The number of postTweet calls made for position i of the list.
Attempts(rec, i) == Cardinality({ k \in DOMAIN rec.posts : rec.posts[k] = i })

IncludesHandle(text, username) ==
  \E i \in 1 .. Len(text) - 1 : text[i] = "@" /\ text[i + 1] = username

\* C26: the reply text an invocation is about to pass to postTweet holds the
\* handle of the mention's author.
C26_ReplyHasHandle ==
  \A p \in Procs : run[p].pc = "post" => IncludesHandle(run[p].replyText, Author)

\* The number of entries of a reply history whose heroName lowercases to h.
RepliesFor(history, h) ==
  Cardinality({ id \in DOMAIN history :
                  history[id].heroName # NoHero /\ ToLowerCase(history[id].heroName) = h })

\* C27: right after a markTweetAsReplied, in each backend, the per-hero count of
\* every hero name is the number of stored replies for that hero.
C27_ByHeroConsistency ==
  ret.op = "markTweetAsReplied" =>
    \A h \in { ToLowerCase(n) : n \in HeroNames } :
      /\ MapGet0(file.doc.replies.byHero, h) = RepliesFor(file.doc.replies.history, h)
      /\ MapGet0(IF dyn.heroStats.present THEN dyn.heroStats.data ELSE EmptyMap, h)
           = RepliesFor(dyn.tweets, h)

\* C28: at every step of a save, and after the process has stopped at any of
\* them, the state file of the saving state manager holds the complete document
\* it held before the save or the complete new one.
C28_AtomicFileWrite ==
  ret.op \in {"fs.writeFile", "tmp.writeFile", "fs.rename", "saved", "stopped"} =>
    (IF ret.out = "facade" THEN file ELSE legacy.main) \in { ret.log[1], ret.log[2] }

\* What a load is to return given the state file and the backups: the document
\* of the file; the defaults when the file is missing; the newest backup when
\* the file is unparsable or lacks a section; the defaults when there is none.
Recovered(before, backups) ==
  IF ~before.present THEN getDefaultState
  ELSE IF before.parsable /\ Complete(before.doc) THEN before.doc
  ELSE IF backups # << >> THEN backups[Len(backups)].doc
  ELSE getDefaultState

\* C29: a load returns the document of the state file, the newest backup (then
\* also restored as the state file) when the file is unparsable or lacks a
\* section, the defaults when there is no backup or no file; what it returns has
\* every section.
C29_CorruptionRecovery ==
  ret.op = "loadState" =>
    LET doc == ret.log[1]
        before == ret.log[2]
        backups == ret.log[3]
        corrupted == before.present /\ ~(before.parsable /\ Complete(before.doc))
    IN /\ Complete(doc)
       /\ doc = Recovered(before, backups)
       /\ (corrupted /\ backups # << >>) =>
            (IF ret.out = "facade" THEN file ELSE legacy.main) = Written(doc)

\* C30: with DynamoDB the primary, the fallback enabled and DynamoDB failing some
\* of its calls, a loadLastMentionId that follows a saveLastMentionId(id) that
\* returned true returns id.
C30_ReadYourWrites ==
  [][(/\ cfg.useDynamo /\ cfg.fallback
      /\ ret.op = "saveLastMentionId" /\ ret.ok
      /\ ret'.op = "loadLastMentionId" /\ ret'.n = ret.n + 1)
     => ret'.out = ret.arg]_vars

\* C31: with DynamoDB the primary and failing some of its calls, a
\* hasRepliedToTweet(id) that follows a markTweetAsReplied(id) that returned true
\* returns true.
C31_DedupDurability ==
  [][(/\ cfg.useDynamo
      /\ ret.op = "markTweetAsReplied" /\ ret.ok
      /\ ret'.op = "hasRepliedToTweet" /\ ret'.n = ret.n + 1 /\ ret'.arg = ret.arg)
     => ret'.ok]_vars

\* An operation made no use of the file backend: run on the state file as it is
\* (a) and on no state file at all (b), it returns the same, leaves the table
\* the same, and leaves the file it was given alone.
FileUnused(a, b) ==
  /\ a.ret = b.ret /\ a.dyn = b.dyn /\ a.threw = b.threw
  /\ a.file = file /\ b.file = NoFile

\* C32: with DynamoDB the primary and the fallback off, no operation of the
\* facade reads or writes the state file, whatever the table holds and whether
\* its calls succeed or fail.
C32_FallbackSwitch ==
  (cfg.useDynamo /\ ~cfg.fallback) =>
    /\ \A ft \in Fates(1, 1) :
         /\ FileUnused(LoadLastMentionId(dyn, file, ft), LoadLastMentionId(dyn, NoFile, ft))
         /\ \A id \in Ids :
              FileUnused(HasRepliedToTweet(dyn, file, id, ft), HasRepliedToTweet(dyn, NoFile, id, ft))
    /\ \A ft \in Fates(2, 2) :
         /\ \A id \in Ids :
              FileUnused(SaveLastMentionId(dyn, file, id, now, ft),
                         SaveLastMentionId(dyn, NoFile, id, now, ft))
         /\ FileUnused(StartExecution(dyn, file, now, ft), StartExecution(dyn, NoFile, now, ft))
         /\ FileUnused(EndExecution(dyn, file, TRUE, ZeroStats, now, ft),
                       EndExecution(dyn, NoFile, TRUE, ZeroStats, now, ft))
         /\ FileUnused(RecordError(dyn, file, MsgNotPermitted, CtxPostReply, Digits(MaxId), now, ft),
                       RecordError(dyn, NoFile, MsgNotPermitted, CtxPostReply, Digits(MaxId), now, ft))
    /\ \A ft \in Fates(5, 2), id \in Ids :
         LET meta == [NoMeta EXCEPT !.heroName = Zed] IN
         FileUnused(MarkTweetAsReplied(dyn, file, id, meta, now, ft),
                    MarkTweetAsReplied(dyn, NoFile, id, meta, now, ft))
    /\ \A ft \in Fates(5, 1) :
         /\ FileUnused(ResetState(dyn, file, ft), ResetState(dyn, NoFile, ft))
         /\ FileUnused(GetStatistics(dyn, file, ft), GetStatistics(dyn, NoFile, ft))

\* C33: right after a resetState that returned true, loadLastMentionId returns
\* null and hasRepliedToTweet(id) returns false for every id.
C33_ResetClearsAll ==
  [][(ret'.n = ret.n + 1 /\ ret'.op = "resetState" /\ ret'.ok) =>
       \A ft \in Fates(1, 1) :
         /\ LoadLastMentionId(dyn', file', ft).ret = NullId
         /\ \A id \in Ids : ~HasRepliedToTweet(dyn', file', id, ft).ret]_vars

\* C34: the text passed to postTweet is at most 280 characters long.
C34_ReplyLengthBound ==
  ret.op = "formatReplyText" => ret.out <= MAX_TWEET_LENGTH

\* Every record of the document is in the table as the document has it.
Stored(d, doc) ==
  /\ \A k \in 1 .. 3 :
       LET item == ImportItems(doc)[k] IN d[item[1]].present /\ d[item[1]].data = item[2]
  /\ \A k \in 1 .. 2 :
       LET item == ImportStats(doc)[k] IN d[item[1]].present /\ d[item[1]].data = item[2]
  /\ \A id \in DOMAIN doc.replies.history :
       id \in DOMAIN d.tweets /\ d.tweets[id] = doc.replies.history[id]

\* C35: an importFullState, or a synchronizeState('toDynamo'), that returned
\* true has stored every record of its source document in the table.
C35_SyncTruthful ==
  (ret.op \in {"importFullState", "toDynamo"} /\ ret.ok) => Stored(dyn, ret.log[1])

\* The cursor with its processedCount, the reply records and the error log, as
\* both backends hold them.
ReplyState(d, f) ==
  <<d.lastMentionId, d.tweets, d.heroStats, d.replyCount, d.errors,
    f.doc.twitter, f.doc.replies, f.doc.errors>>

\* getMentions has returned, and its list is empty.
EmptyBatch(rec) == rec.pc = "end" /\ rec.mentions = << >>

\* C36: an invocation of processMentions whose getMentions returned an empty
\* list leaves the cursor, processedCount, the reply history, count and byHero
\* and the error log as they were, in both backends; its startExecution, where a
\* backend stores it, raises totalRuns by exactly one and nothing after it
\* changes totalRuns; it ends through endExecution(true, stats) with every
\* counter of stats zero, and that is what it returns.
C36_EmptyBatchFrame ==
  /\ [](\A p \in DOMAIN run :
          (run[p].pc = "returned" /\ run[p].mentions = << >> /\ run[p].outcome # "threw") =>
            /\ run[p].outcome = "completed"
            /\ run[p].ended
            /\ run[p].stats = ZeroStats
            /\ StoredCursor = run[p].cursorBefore)
  /\ [][\A p \in DOMAIN run :
          /\ (run[p].pc = "idle" /\ run'[p].pc = "fetch") =>
               /\ ReplyState(dyn', file') = ReplyState(dyn, file)
               /\ Healthy => StoredMetrics'.totalRuns = StoredMetrics.totalRuns + 1
          /\ (run[p].pc = "fetch" /\ EmptyBatch(run'[p])) =>
               /\ dyn' = dyn /\ file' = file
               /\ run'[p].stats = ZeroStats
          /\ (run[p].pc = "end" /\ EmptyBatch(run[p]) /\ run'[p].pc = "returned") =>
               /\ ReplyState(dyn', file') = ReplyState(dyn, file)
               /\ StoredMetrics'.totalRuns = StoredMetrics.totalRuns
               /\ Healthy => StoredMetrics'.lastRunStats = ZeroStats]_vars

\* A second invocation found nothing to fetch and returned, with a cursor stored
\* by the first one and two runs counted.
C36_Witness ==
  /\ Healthy
  /\ run[1].pc = "returned" /\ run[1].mentions = << >> /\ run[1].outcome = "completed"
  /\ StoredCursor # NullId
  /\ work.runs = 2
  /\ StoredMetrics.totalRuns = 2
  /\ StoredMetrics.lastRunStats = ZeroStats

\* C37: an invocation of processMentions ends. It moves through the sorted list
\* one position at a time and never back, and comes to the check for an earlier
\* reply only by moving to the next position; a pass of the candidate loop that
\* stays in the loop has one candidate fewer left to try; a pass of the retry
\* loop that stays in the loop has used one more retry of MAX_RETRIES; no
\* mention is posted to more than MAX_RETRIES + 1 times; and once started the
\* invocation reaches its return.
C37_BatchTermination ==
  /\ [](\A p \in DOMAIN run :
          /\ run[p].idx <= Len(run[p].mentions)
          /\ run[p].candidates <= MaxCandidates
          /\ run[p].retryCount <= MAX_RETRIES
          /\ \A i \in 1 .. Len(run[p].mentions) : Attempts(run[p], i) <= MAX_RETRIES + 1)
  /\ [][\A p \in DOMAIN run :
          (run[p].pc \notin {"idle", "fetch", "returned"} /\ run'[p].pc # "idle") =>
            /\ run'[p].mentions = run[p].mentions
            /\ run'[p].idx \in {run[p].idx, run[p].idx + 1}
            /\ run'[p].pc = "dedup" => run'[p].idx = run[p].idx + 1
            /\ (run[p].pc = "resolve" /\ run'[p].pc = "resolve") =>
                 run'[p].candidates = run[p].candidates - 1 /\ run'[p].candidates >= 1
            /\ (run[p].pc = "post" /\ run'[p].pc = "post") =>
                 run'[p].retryCount = run[p].retryCount + 1
            /\ run'[p].pc = run[p].pc => run[p].pc \in {"dedup", "resolve", "post"}]_vars
  /\ \A p \in Procs : (run[p].pc # "idle") ~> (run[p].pc = "returned")

\* An invocation went through a full list, found a hero and posted once for
\* each of its mentions, and returned.
C37_Witness ==
  /\ run[1].pc = "returned" /\ run[1].outcome = "completed"
  /\ Len(run[1].mentions) = MaxBatch
  /\ run[1].idx = MaxBatch
  /\ run[1].posts = << 1, 2 >>
  /\ run[1].unresolved = {}

\* An exportFullState that came right after an importFullState into an empty
\* table, every call of both answered.
RoundTrip ==
  /\ ret.op = "exportFullState" /\ ret.ok
  /\ ret.out # << >>
  /\ ret.out[1] = EmptyTable
  /\ \A k \in DOMAIN ret.out[2] : ret.out[2][k] = "ok"
  /\ \A k \in DOMAIN ret.arg : ret.arg[k] = "ok"

\* The sections of a document other than replies.history.
Scalars(doc) ==
  <<doc.twitter, doc.replies.count, doc.replies.byHero, doc.executionMetrics, doc.errors>>

\* C38: importFullState(s) followed by exportFullState() on a working, empty
\* table returns the cursor fields, replies.count, replies.byHero,
\* replies.history, executionMetrics and errors of s.
C38_ImportExportRoundTrip ==
  RoundTrip =>
    /\ Scalars(ret.log[2]) = Scalars(ret.log[1])
    /\ ret.log[2].replies.history = ret.log[1].replies.history

====
